---------------------------- MODULE Spec2Model ----------------------------
(***************************************************************************)
(* A model of jax/interpreters/partial_eval.py: partial values and their   *)
(* lattice (join_pvals, merge_pvals), and the JaxprTrace partial evaluator *)
(* (tracers, recipes, tracers_to_jaxpr, eval_jaxpr_raw) running on the     *)
(* interpreter-level stack.                                                *)
(***************************************************************************)
EXTENDS Integers, Sequences, FiniteSets, TLC

(***************************************************************************)
(* Bounds of the model.                                                    *)
(***************************************************************************)
\* scalar payloads range over 0..MaxVal
MaxVal == 1

\* an operation or a call is made while at most MaxTracers tracers are live
MaxTracers == 4

\* at most MaxDepth calls are running at a time
MaxDepth == 3

\* the running calls apply at most MaxOps operations between them
MaxOps == 2

\* the axis_size of a mapped call
MaxAxis == 2

\* the traces a value is raised to have levels 0..MaxLevel
MaxLevel == 2

\* values are raised while fewer than MaxRaised tracers exist
MaxRaised == 3

\* the arguments of the example function are 0..MaxArg
MaxArg == 3

\* a batch has 1..MaxBatch elements
MaxBatch == 3

\* a jit-wrapped function is called at most MaxCalls times
MaxCalls == 3

\* an axis of an indexed array has 2..MaxDim elements
MaxDim == 3

\* the names of the variables Var(0) .. Var(MaxCount) are compared
MaxCount == 60

(***************************************************************************)
(* Values, abstract values, partial values.                                *)
(* Every object is a record with a kind field k.                           *)
(*   values : arr (payload v, shape sh), tup (elements e)                  *)
(*   avals  : concrete (v, sh), shaped (sh), unshaped, atuple (e)          *)
(*   pv     : none, an aval, or jtt (elements e)                           *)
(* A raised exception is a record of kind error.                           *)
(***************************************************************************)
None == [k |-> "none"]

Arr(v, sh) == [k |-> "arr", v |-> v, sh |-> sh]

JaxTuple(xs) == [k |-> "tup", e |-> xs]

\* core.unit is the empty JaxTuple
unit == JaxTuple(<<>>)

ConcreteArray(v, sh) == [k |-> "concrete", v |-> v, sh |-> sh]

ShapedArray(sh) == [k |-> "shaped", sh |-> sh]

UnshapedArray == [k |-> "unshaped"]

AbstractTuple(xs) == [k |-> "atuple", e |-> xs]

JaxprTracerTuple(xs) == [k |-> "jtt", e |-> xs]

\* a Python list, as built by [None] * n
PyList(xs) == [k |-> "list", e |-> xs]

TypeError == [k |-> "error", exc |-> "TypeError"]

AssertionError == [k |-> "error", exc |-> "AssertionError"]

IsErr(x) == x.k = "error"

\* isinstance(pv, AbstractValue)
IsAbstractValue(pv) == pv.k \in {"concrete", "shaped", "unshaped", "atuple"}

IsJaxprTracerTuple(pv) == pv.k = "jtt"

PartialVal(pv, const) == [k |-> "pval", pv |-> pv, const |-> const]

\* the first error of a sequence of results, in index order; None when there is none
FirstErr(rs) ==
  IF \E i \in 1..Len(rs) : IsErr(rs[i])
  THEN rs[CHOOSE i \in 1..Len(rs) : IsErr(rs[i]) /\ \A j \in 1..(i-1) : ~IsErr(rs[j])]
  ELSE None

\* core.pack of values
pack(xs) == JaxTuple(xs)

\* core.get_aval of a value: the concrete abstraction of an array, a tuple
\* of abstractions for a tuple
RECURSIVE get_aval(_)
get_aval(x) ==
  IF x.k = "arr" THEN ConcreteArray(x.v, x.sh)
  ELSE AbstractTuple([i \in 1..Len(x.e) |-> get_aval(x.e[i])])

\* core.lattice_join: the most specific common abstraction of two avals
RECURSIVE lattice_join(_, _)
lattice_join(x, y) ==
  IF x.k = "atuple" /\ y.k = "atuple" THEN
    IF Len(x.e) # Len(y.e) THEN TypeError
    ELSE LET js == [i \in 1..Len(x.e) |-> lattice_join(x.e[i], y.e[i])]
         IN  IF FirstErr(js) # None THEN FirstErr(js) ELSE AbstractTuple(js)
  ELSE IF x.k = "atuple" \/ y.k = "atuple" THEN TypeError
  ELSE IF x = y THEN x
  ELSE IF x.k # "unshaped" /\ y.k # "unshaped" /\ x.sh = y.sh THEN ShapedArray(x.sh)
  ELSE UnshapedArray

\* util.safe_zip(xs, ys): both iterable and of the same length
safe_zip(xs, ys) ==
  IF xs.k \in {"concrete", "shaped", "unshaped", "arr"} THEN TypeError
  ELSE IF ys.k \in {"concrete", "shaped", "unshaped", "arr"} THEN TypeError
  ELSE IF Len(xs.e) # Len(ys.e) THEN AssertionError
  ELSE PyList([i \in 1..Len(xs.e) |-> PartialVal(xs.e[i], ys.e[i])])

(***************************************************************************)
(* merge_pvals(val, pval)                                                  *)
(***************************************************************************)
\* faulty variants of merge_pvals: the computed value is kept everywhere,
\* the recorded constant is kept everywhere
merge_pvals_keeps_val(val, pval) == val

merge_pvals_keeps_const(val, pval) == pval.const

RECURSIVE merge_pvals(_, _)
merge_pvals(val, pval) ==
  LET pv == pval.pv
      const == pval.const
  IN  IF IsAbstractValue(pv) THEN val
      ELSE IF IsJaxprTracerTuple(pv) THEN
        LET zs == safe_zip(pv, const)
        IN  IF IsErr(zs) THEN zs
            ELSE IF val.k # "tup" THEN TypeError
            ELSE IF Len(val.e) # Len(zs.e) THEN AssertionError
            ELSE LET ms == [i \in 1..Len(zs.e) |-> merge_pvals(val.e[i], zs.e[i])]
                 IN  IF FirstErr(ms) # None THEN FirstErr(ms) ELSE pack(ms)
      ELSE IF pv = None THEN const
      ELSE TypeError

(***************************************************************************)
(* join_pvals(pval1, pval2)                                                *)
(***************************************************************************)
\* faulty variants of the known cases of join_pvals: the first operand is
\* returned whatever the second is, the known operand wins over the abstract
join_known_first(pval1, pval2) == pval1

join_known_abstract_keeps_known(known, abstract) == known

\* faulty variant of the known case: the second operand is returned
join_known_second(pval1, pval2) == pval2

\* join_pvals, both pvals known (lines 280-286)
join_known(pval1, pval2) ==
  LET aval1 == get_aval(pval1.const)
      aval2 == get_aval(pval2.const)
  IN  IF aval1 = aval2 THEN pval1
      ELSE LET aval == lattice_join(aval1, aval2)
           IN  IF IsErr(aval) THEN aval ELSE PartialVal(aval, unit)

\* join_pvals, exactly one pval known (lines 287-292): known is the known
\* operand, abstract the other
join_known_abstract(known, abstract) == PartialVal(abstract.pv, unit)

\* join_pvals, neither known (lines 293-295)
join_abstract(pval1, pval2) ==
  LET aval == lattice_join(pval1.pv, pval2.pv)
  IN  IF IsErr(aval) THEN aval ELSE PartialVal(aval, unit)

\* join_pvals, the result of the element-wise joins js (lines 302-306)
\* (tuple(join_consts) is taken to compare equal to the core tuple of the
\* same elements)
join_tuple_result(js) ==
  LET join_pvs == [i \in 1..Len(js) |-> js[i].pv]
      join_consts == [i \in 1..Len(js) |-> js[i].const]
  IN  IF \A i \in 1..Len(js) : IsAbstractValue(join_pvs[i])
      THEN PartialVal(AbstractTuple(join_pvs), JaxTuple(join_consts))
      ELSE PartialVal(JaxprTracerTuple(join_pvs), JaxTuple(join_consts))

RECURSIVE join_pvals(_, _)
join_pvals(pval1, pval2) ==
  LET pv1 == pval1.pv
      const1 == pval1.const
      pv2 == pval2.pv
      const2 == pval2.const
  IN  IF pv1 = None /\ pv2 = None THEN join_known(pval1, pval2)
      ELSE IF pv1 = None /\ IsAbstractValue(pv2) THEN join_known_abstract(pval1, pval2)
      ELSE IF IsAbstractValue(pv1) /\ pv2 = None THEN join_known_abstract(pval2, pval1)
      ELSE IF IsAbstractValue(pv1) /\ IsAbstractValue(pv2) THEN join_abstract(pval1, pval2)
      ELSE IF ~(IsJaxprTracerTuple(pv1) \/ IsJaxprTracerTuple(pv2)) THEN AssertionError
      ELSE
        LET pv1s == IF pv1 = None THEN PyList([i \in 1..Len(pv2.e) |-> None]) ELSE pv1
            pv2s == IF pv2 = None
                    THEN IF pv1s.k \in {"atuple", "jtt", "list"}
                         THEN PyList([i \in 1..Len(pv1s.e) |-> None])
                         ELSE TypeError
                    ELSE pv2
            pvals1 == safe_zip(pv1s, const1)
            pvals2 == safe_zip(pv2s, const2)
        IN  IF IsErr(pv2s) THEN pv2s
            ELSE IF IsErr(pvals1) THEN pvals1
            ELSE IF IsErr(pvals2) THEN pvals2
            ELSE IF Len(pvals1.e) # Len(pvals2.e) THEN AssertionError
            ELSE
              LET js == [i \in 1..Len(pvals1.e) |-> join_pvals(pvals1.e[i], pvals2.e[i])]
              IN  IF FirstErr(js) # None THEN FirstErr(js) ELSE join_tuple_result(js)

\* a call whose argument is the outcome of an earlier call: an exception
\* raised there propagates
join_pvals_of(r1, r2) ==
  IF IsErr(r1) THEN r1 ELSE IF IsErr(r2) THEN r2 ELSE join_pvals(r1, r2)

(***************************************************************************)
(* pack_pvals(pvals)                                                       *)
(***************************************************************************)
pack_pvals(pvals) ==
  LET pvs == [i \in 1..Len(pvals) |-> pvals[i].pv]
      consts == [i \in 1..Len(pvals) |-> pvals[i].const]
      pv_out == IF \A i \in 1..Len(pvs) : pvs[i] = None THEN None
                ELSE IF \A i \in 1..Len(pvs) : IsAbstractValue(pvs[i]) THEN AbstractTuple(pvs)
                ELSE JaxprTracerTuple(pvs)
  IN  PartialVal(pv_out, pack(consts))

(***************************************************************************)
(* Tracers and recipes.  The heap is the sequence of the live tracers; a   *)
(* tracer is referred to by its position in it (its identity).             *)
(*   tracer : trace (level, sublevel), pval, recipe, and val, the value    *)
(*            the traced function computes there when it is run directly   *)
(*   recipe : LambdaBinding, ConstVar(val), FreeVar(val), JaxprEqn,        *)
(*            Destructuring(i, eqn, key), or unit                          *)
(***************************************************************************)
TracerRef(id) == [k |-> "tracer", id |-> id]

IsTracer(x) == x.k = "tracer"

JaxprTrace(level, sublevel) == [level |-> level, sublevel |-> sublevel]

LambdaBinding == [k |-> "LambdaBinding"]

ConstVar(val) == [k |-> "ConstVar", val |-> val]

FreeVar(val) == [k |-> "FreeVar", val |-> val]

\* outvars of a recipe is the list [None] * n of an unpack, and <<>> for the
\* None of every other equation
JaxprEqn(invars, outvars, primitive, bound_subjaxprs, destructure, params) ==
  [k |-> "JaxprEqn", invars |-> invars, outvars |-> outvars, primitive |-> primitive,
   bound_subjaxprs |-> bound_subjaxprs, destructure |-> destructure, params |-> params]

\* the params of an equation: axis_size, 0 when the equation has none
NoParams == [axis_size |-> 0]

Destructuring(i, eqn, key) == [k |-> "Destructuring", i |-> i, eqn |-> eqn, key |-> key]

\* JaxprTracer.__init__
JaxprTracer(trace, pval, recipe, val) ==
  [trace |-> trace, pval |-> pval, recipe |-> recipe, val |-> val]

\* the outcome of an operation that allocates tracers: the heap after it and
\* what it returns (a tracer reference, a value, or a raised exception)
Outcome(heap, out) == [heap |-> heap, out |-> out]

Exception == [k |-> "error", exc |-> "Exception"]

\* faulty variant of the assertion of JaxprTracer.__init__: nothing is checked
init_unchecked(h, trace, const) == TRUE

\* the assertion of JaxprTracer.__init__: a constant that is a tracer
\* belongs to a trace of a lower level
init_ok(h, trace, const) == IsTracer(const) => h[const.id].trace.level < trace.level

\* JaxprTrace.new_const (pure and lift): a known tracer, its recipe is unit;
\* a tracer of the trace's own level is refused
new_const(h, trace, val) ==
  IF IsTracer(val) /\ h[val.id].trace.level = trace.level THEN Outcome(h, Exception)
  ELSE IF ~init_ok(h, trace, val) THEN Outcome(h, AssertionError)
  ELSE Outcome(Append(h, JaxprTracer(trace, PartialVal(None, val), unit,
                                     IF IsTracer(val) THEN h[val.id].val ELSE val)),
               TracerRef(Len(h) + 1))

\* JaxprTrace.new_instantiated_const
new_instantiated_const(h, trace, val) ==
  Outcome(Append(h, JaxprTracer(trace, PartialVal(get_aval(val), unit), ConstVar(val), val)),
          TracerRef(Len(h) + 1))

\* JaxprTrace.new_arg; val is the argument the input stands for
new_arg(h, trace, pval, val) ==
  Outcome(Append(h, JaxprTracer(trace, pval, LambdaBinding, val)), TracerRef(Len(h) + 1))

\* faulty variant of sublift: the tracer is copied as a constant, without
\* the back-reference
sublift_copy(h, trace, t) ==
  Outcome(Append(h, JaxprTracer(trace, h[t.id].pval, unit, h[t.id].val)),
          TracerRef(Len(h) + 1))

\* JaxprTrace.sublift
sublift(h, trace, t) ==
  IF ~init_ok(h, trace, h[t.id].pval.const) THEN Outcome(h, AssertionError)
  ELSE Outcome(Append(h, JaxprTracer(trace, h[t.id].pval, FreeVar(t), h[t.id].val)),
               TracerRef(Len(h) + 1))

\* the order of traces: by level, then by sublevel
TraceLess(t1, t2) ==
  t1.level < t2.level \/ (t1.level = t2.level /\ t1.sublevel < t2.sublevel)

\* core.Trace.full_raise
full_raise(h, trace, val) ==
  IF ~IsTracer(val) THEN new_const(h, trace, val)
  ELSE IF h[val.id].trace = trace THEN Outcome(h, val)
  ELSE IF TraceLess(h[val.id].trace, trace) THEN sublift(h, trace, val)
  ELSE Outcome(h, Exception)

\* full_raise of each of vals in turn
RECURSIVE full_raise_all(_, _, _)
full_raise_all(h, trace, vals) ==
  IF vals = <<>> THEN [heap |-> h, out |-> <<>>]
  ELSE LET cons(r, rest) == [heap |-> rest.heap, out |-> <<r.out>> \o rest.out]
           then(r) == cons(r, full_raise_all(r.heap, trace, Tail(vals)))
       IN  then(full_raise(h, trace, Head(vals)))

\* JaxprTracer.ispure
ispure(h, t) == h[t.id].pval.pv = None

\* faulty variant of full_lower: the constant of a known tracer is returned
\* as it is
full_lower_once(h, x) ==
  IF IsTracer(x) /\ ispure(h, x) THEN h[x.id].pval.const ELSE x

\* JaxprTracer.full_lower, and core.full_lower of a value: the constant of a
\* known tracer is lowered in its turn
RECURSIVE full_lower(_, _)
full_lower(h, x) ==
  IF IsTracer(x) /\ ispure(h, x) THEN full_lower(h, h[x.id].pval.const) ELSE x

\* partial_val_aval(pv, const)
RECURSIVE partial_val_aval(_, _)
partial_val_aval(pv, const) ==
  IF IsAbstractValue(pv) THEN pv
  ELSE IF IsJaxprTracerTuple(pv)
  THEN AbstractTuple([i \in 1..Len(pv.e) |-> partial_val_aval(pv.e[i], const.e[i])])
  ELSE get_aval(const)

\* JaxprTracer.aval
aval_of(h, t) == partial_val_aval(h[t.id].pval.pv, h[t.id].pval.const)

\* eqn_parents(eqn)
RECURSIVE subjaxpr_tracers(_)
subjaxpr_tracers(bs) ==
  IF bs = <<>> THEN <<>>
  ELSE Head(bs).consts \o Head(bs).freevars \o subjaxpr_tracers(Tail(bs))

eqn_parents(eqn) == eqn.invars \o subjaxpr_tracers(eqn.bound_subjaxprs)

\* JaxprTracer.parents
parents(h, id) ==
  LET recipe == h[id].recipe
  IN  IF recipe.k = "JaxprEqn" THEN eqn_parents(recipe)
      ELSE IF recipe.k = "Destructuring" THEN eqn_parents(recipe.eqn)
      ELSE <<>>

(***************************************************************************)
(* JaxprTrace: the operations that build tracers.                          *)
(***************************************************************************)
\* the arithmetic primitives
Arith == {"add", "mul"}

\* primitive.impl of an arithmetic primitive on two values
arith_impl(primitive, x, y) ==
  IF x.k # "arr" \/ y.k # "arr" THEN TypeError
  ELSE Arr(IF primitive = "add" THEN x.v + y.v ELSE x.v * y.v, x.sh)

\* primitive.abstract_eval of an arithmetic primitive: arrays of one shape
abstract_eval(primitive, avals) ==
  IF Len(avals) # 2 THEN TypeError
  ELSE IF \E i \in 1..2 : avals[i].k \notin {"concrete", "shaped"} THEN TypeError
  ELSE IF avals[1].sh # avals[2].sh THEN TypeError
  ELSE ShapedArray(avals[1].sh)

\* JaxprTracer.unpack: the children, tracers for the parts that are not
\* known and the constants themselves for the known parts (full_lower);
\* the key of the unpack, a fresh object, is the first free place of the heap
unpack(h, t) ==
  LET pv == h[t.id].pval.pv
      const == h[t.id].pval.const
      n == Len(pv.e)
      eqn == JaxprEqn(<<t>>, [i \in 1..n |-> None], "id", <<>>, TRUE, NoParams)
      key == Len(h) + 1
      consts == IF IsAbstractValue(pv) THEN [i \in 1..n |-> unit] ELSE const.e
      \* the elements that stay tracers, in order
      kept == {i \in 1..n : pv.e[i] # None}
      pos(i) == Cardinality({j \in kept : j < i}) + 1
      child(i) == JaxprTracer(h[t.id].trace, PartialVal(pv.e[i], consts[i]),
                              Destructuring(i, eqn, key), h[t.id].val.e[i])
      idx(p) == CHOOSE i \in kept : pos(i) = p
  IN  IF pv = None THEN
        IF const.k = "tup" THEN Outcome(h, PyList(const.e)) ELSE Outcome(h, TypeError)
      ELSE IF pv.k \notin {"atuple", "jtt"} THEN Outcome(h, TypeError)
      ELSE IF ~IsAbstractValue(pv) /\ (const.k # "tup" \/ Len(const.e) # n)
      THEN Outcome(h, AssertionError)
      ELSE Outcome(h \o [p \in 1..Cardinality(kept) |-> child(idx(p))],
                   PyList([i \in 1..n |-> IF i \in kept THEN TracerRef(Len(h) + pos(i))
                                          ELSE consts[i]]))

\* JaxprTrace.pack
trace_pack(h, trace, tracers) ==
  LET eqn == JaxprEqn(tracers, <<>>, "pack", <<>>, FALSE, NoParams)
      pval == pack_pvals([i \in 1..Len(tracers) |-> h[tracers[i].id].pval])
      val == JaxTuple([i \in 1..Len(tracers) |-> h[tracers[i].id].val])
  IN  Outcome(Append(h, JaxprTracer(trace, pval, eqn, val)), TracerRef(Len(h) + 1))

\* core.pack of values some of which are tracers
core_pack(h, trace, vals) ==
  LET lowered(packed) == Outcome(packed.heap, full_lower(packed.heap, packed.out))
      pack_raised(raised) == lowered(trace_pack(raised.heap, trace, raised.out))
  IN  pack_raised(full_raise_all(h, trace, vals))

\* faulty variant of instantiate_const: a composite partial value is refused
instantiate_const_strict(h, trace, tracer) ==
  IF IsAbstractValue(h[tracer.id].pval.pv) THEN Outcome(h, tracer)
  ELSE IF h[tracer.id].pval.pv = None
  THEN new_instantiated_const(h, trace, h[tracer.id].pval.const)
  ELSE Outcome(h, TypeError)

\* JaxprTrace.instantiate_const
RECURSIVE instantiate_const(_, _, _)
RECURSIVE instantiate_all(_, _, _)
instantiate_const(h, trace, tracer) ==
  LET pv == h[tracer.id].pval.pv
      const == h[tracer.id].pval.const
      pack_all(insts) == IF IsErr(insts.out) THEN insts
                         ELSE core_pack(insts.heap, trace, insts.out.e)
      instantiate_raised(raised) == pack_all(instantiate_all(raised.heap, trace, raised.out))
      instantiate_children(children) ==
        IF IsErr(children.out) THEN children
        ELSE instantiate_raised(full_raise_all(children.heap, trace, children.out.e))
  IN  IF IsAbstractValue(pv) THEN Outcome(h, tracer)
      ELSE IF IsJaxprTracerTuple(pv) THEN instantiate_children(unpack(h, tracer))
      ELSE IF pv = None THEN new_instantiated_const(h, trace, const)
      ELSE Outcome(h, TypeError)

\* map(self.instantiate_const, tracers)
instantiate_all(h, trace, tracers) ==
  IF tracers = <<>> THEN Outcome(h, PyList(<<>>))
  ELSE LET cons(r, rest) == IF IsErr(rest.out) THEN rest
                             ELSE Outcome(rest.heap, PyList(<<r.out>> \o rest.out.e))
           then(r) == IF IsErr(r.out) THEN r
                      ELSE cons(r, instantiate_all(r.heap, trace, Tail(tracers)))
       IN  then(instantiate_const(h, trace, Head(tracers)))

\* JaxprTrace.process_primitive, no custom partial-evaluation rule registered
process_primitive(h, trace, primitive, tracers) ==
  LET out_tracer(hi, ts, out_aval) ==
        IF IsErr(out_aval) THEN Outcome(hi, out_aval)
        ELSE Outcome(Append(hi, JaxprTracer(trace, PartialVal(out_aval, unit),
                                            JaxprEqn(ts, <<>>, primitive, <<>>, FALSE, NoParams),
                                            arith_impl(primitive, hi[ts[1].id].val,
                                                       hi[ts[2].id].val))),
                     TracerRef(Len(hi) + 1))
      eval_abstract(insts) ==
        IF IsErr(insts.out) THEN insts
        ELSE out_tracer(insts.heap, insts.out.e,
                        abstract_eval(primitive, [i \in 1..Len(insts.out.e) |->
                                                   aval_of(insts.heap, insts.out.e[i])]))
  IN  eval_abstract(instantiate_all(h, trace, tracers))

\* core.Primitive.bind with at least one tracer among args: every argument is
\* raised to the top trace, which processes the primitive
bind(h, trace, primitive, args) ==
  LET lowered(out) == IF IsErr(out.out) THEN out
                      ELSE Outcome(out.heap, full_lower(out.heap, out.out))
      process(raised) == lowered(process_primitive(raised.heap, trace, primitive, raised.out))
  IN  process(full_raise_all(h, trace, args))

\* faulty variant of remove_axis_from_aval: the abstraction is kept whole
remove_axis_keep(aval) == aval

\* remove_axis_from_aval(aval)
NotImplementedError == [k |-> "error", exc |-> "NotImplementedError"]

RECURSIVE remove_axis_from_aval(_)
remove_axis_from_aval(aval) ==
  IF aval.k = "atuple"
  THEN LET rs == [i \in 1..Len(aval.e) |-> remove_axis_from_aval(aval.e[i])]
       IN  IF FirstErr(rs) # None THEN FirstErr(rs) ELSE AbstractTuple(rs)
  ELSE IF aval.k \in {"shaped", "concrete"}
  THEN ShapedArray(IF aval.sh = <<>> THEN <<>> ELSE Tail(aval.sh))
  ELSE NotImplementedError

\* remove_axis_from_pv(pv)
RECURSIVE remove_axis_from_pv(_)
remove_axis_from_pv(pv) ==
  IF pv = None THEN pv
  ELSE IF IsAbstractValue(pv) THEN remove_axis_from_aval(pv)
  ELSE IF IsJaxprTracerTuple(pv)
  THEN LET rs == [i \in 1..Len(pv.e) |-> remove_axis_from_pv(pv.e[i])]
       IN  IF FirstErr(rs) # None THEN FirstErr(rs) ELSE JaxprTracerTuple(rs)
  ELSE TypeError

\* add_axis_to_aval(size, aval)
RECURSIVE add_axis_to_aval(_, _)
add_axis_to_aval(size, aval) ==
  IF aval.k = "atuple"
  THEN LET rs == [i \in 1..Len(aval.e) |-> add_axis_to_aval(size, aval.e[i])]
       IN  IF FirstErr(rs) # None THEN FirstErr(rs) ELSE AbstractTuple(rs)
  ELSE IF aval.k \in {"shaped", "concrete"} THEN ShapedArray(<<size>> \o aval.sh)
  ELSE NotImplementedError

\* add_axis_to_pv(size, pv)
RECURSIVE add_axis_to_pv(_, _)
add_axis_to_pv(size, pv) ==
  IF pv = None THEN pv
  ELSE IF IsAbstractValue(pv) THEN add_axis_to_aval(size, pv)
  ELSE IF IsJaxprTracerTuple(pv)
  THEN LET rs == [i \in 1..Len(pv.e) |-> add_axis_to_pv(size, pv.e[i])]
       IN  IF FirstErr(rs) # None THEN FirstErr(rs) ELSE JaxprTracerTuple(rs)
  ELSE TypeError

\* the mapped call primitive on values: one element of a mapped argument,
\* and the results of all the elements stacked along a new leading axis
RECURSIVE map_element(_)
map_element(x) ==
  IF x.k = "tup" THEN JaxTuple([i \in 1..Len(x.e) |-> map_element(x.e[i])])
  ELSE Arr(x.v, IF x.sh = <<>> THEN <<>> ELSE Tail(x.sh))

RECURSIVE map_stack(_, _)
map_stack(size, x) ==
  IF x.k = "tup" THEN JaxTuple([i \in 1..Len(x.e) |-> map_stack(size, x.e[i])])
  ELSE Arr(x.v, <<size>> \o x.sh)

\* the known parts of the output of a mapped call, stacked
RECURSIVE map_stack_known(_, _, _)
map_stack_known(size, pv, const) ==
  IF pv = None THEN map_stack(size, const)
  ELSE IF IsJaxprTracerTuple(pv)
  THEN JaxTuple([i \in 1..Len(pv.e) |-> map_stack_known(size, pv.e[i], const.e[i])])
  ELSE const

(***************************************************************************)
(* util.toposort(end_node): the tracers reachable from end_node, every     *)
(* tracer after all of its parents.  Nodes are counted once per child      *)
(* edge, then emitted from the end node backwards as their last child is   *)
(* emitted, and the list is reversed.                                      *)
(***************************************************************************)
Ids(refs) == [i \in 1..Len(refs) |-> refs[i].id]

Last(q) == q[Len(q)]

Front(q) == SubSeq(q, 1, Len(q) - 1)

RECURSIVE child_counts(_, _, _)
child_counts(h, stack, counts) ==
  IF stack = <<>> THEN counts
  ELSE LET node == Last(stack)
       IN  IF counts[node] > 0
           THEN child_counts(h, Front(stack), [counts EXCEPT ![node] = @ + 1])
           ELSE child_counts(h, Front(stack) \o Ids(parents(h, node)),
                             [counts EXCEPT ![node] = 1])

RECURSIVE release_parents(_, _, _)
release_parents(ps, childless, counts) ==
  IF ps = <<>> THEN [childless |-> childless, counts |-> counts]
  ELSE IF counts[Head(ps)] = 1
       THEN release_parents(Tail(ps), Append(childless, Head(ps)), counts)
       ELSE release_parents(Tail(ps), childless, [counts EXCEPT ![Head(ps)] = @ - 1])

RECURSIVE sorted_nodes(_, _, _, _)
sorted_nodes(h, childless, counts, sorted) ==
  IF childless = <<>> THEN sorted
  ELSE LET node == Last(childless)
           r == release_parents(Ids(parents(h, node)), Front(childless), counts)
       IN  sorted_nodes(h, r.childless, r.counts, Append(sorted, node))

Reverse(q) == [i \in 1..Len(q) |-> q[Len(q) + 1 - i]]

toposort(h, end_node) ==
  LET counts == child_counts(h, <<end_node>>, [i \in 1..Len(h) |-> 0])
  IN  Reverse(sorted_nodes(h, <<end_node>>, counts, <<>>))

(***************************************************************************)
(* tracers_to_jaxpr(in_tracers, out_tracer)                                *)
(***************************************************************************)
\* a variable of a jaxpr: Var(count, suffix), named after its count
Var(count) == [k |-> "var", count |-> count]

\* core.unitvar, bound to unit in every environment
unitvar == [k |-> "unitvar"]

NoVar == [k |-> "novar"]

Jaxpr(constvars, freevars, invars, outvar, eqns) ==
  [constvars |-> constvars, freevars |-> freevars, invars |-> invars,
   outvar |-> outvar, eqns |-> eqns]

\* the locals of tracers_to_jaxpr: the gensym counter, t_to_var, eqns, env,
\* consts (both in insertion order) and destructuring_vars, plus keys, the
\* destructuring key each equation was emitted for (0: none)
T2JState(n) ==
  [counter |-> 0, t_to_var |-> [i \in 1..n |-> NoVar], eqns |-> <<>>, env |-> <<>>,
   consts |-> <<>>, destructuring_vars |-> <<>>, keys |-> <<>>, err |-> None]

\* faulty variant of var: a variable is named after the identity of its tracer
var_by_id(st, id) ==
  [st |-> [st EXCEPT !.t_to_var[id] = Var(id), !.counter = @ + 1], v |-> Var(id)]

\* var(t): t_to_var is a defaultdict(newvar), a first lookup allocates
var(st, id) ==
  IF st.t_to_var[id] # NoVar THEN [st |-> st, v |-> st.t_to_var[id]]
  ELSE [st |-> [st EXCEPT !.t_to_var[id] = Var(st.counter), !.counter = @ + 1],
        v |-> Var(st.counter)]

\* map(var, ts)
RECURSIVE map_var(_, _)
map_var(st, ids) ==
  IF ids = <<>> THEN [st |-> st, v |-> <<>>]
  ELSE LET r == var(st, Head(ids))
           rest == map_var(r.st, Tail(ids))
       IN  [st |-> rest.st, v |-> <<r.v>> \o rest.v]

\* [newvar() for _ in outvars]
newvars(st, n) ==
  [st |-> [st EXCEPT !.counter = @ + n], v |-> [i \in 1..n |-> Var(st.counter + i - 1)]]

\* faulty variant of the conversion of an equation: its sub-programs are lost
map_var_subjaxprs_dropped(st, bs) == [st |-> st, v |-> <<>>]

\* the bound sub-programs of an equation with var applied to their bindings
RECURSIVE map_var_subjaxprs(_, _)
map_var_subjaxprs(st, bs) ==
  IF bs = <<>> THEN [st |-> st, v |-> <<>>]
  ELSE LET c == map_var(st, Ids(Head(bs).consts))
           f == map_var(c.st, Ids(Head(bs).freevars))
           rest == map_var_subjaxprs(f.st, Tail(bs))
       IN  [st |-> rest.st,
            v |-> <<[jaxpr |-> Head(bs).jaxpr, consts |-> c.v, freevars |-> f.v]>> \o rest.v]

\* eqn_tracer_to_var(var, outvars, eqn)
eqn_tracer_to_var(st, outvars, eqn) ==
  LET new_eqn(invars, new_bound_subjaxprs) ==
        [st |-> new_bound_subjaxprs.st,
         v |-> JaxprEqn(invars.v, outvars, eqn.primitive, new_bound_subjaxprs.v,
                        eqn.destructure, eqn.params)]
      then(invars) == new_eqn(invars, map_var_subjaxprs(invars.st, eqn.bound_subjaxprs))
  IN  then(map_var(st, Ids(eqn.invars)))

\* faulty variant of the destructuring table lookup: no key is ever found
destructuring_never(st, key) == FALSE

\* key in destructuring_vars
destructuring_has(st, key) ==
  \E i \in 1..Len(st.destructuring_vars) : st.destructuring_vars[i].key = key

\* destructuring_vars[key]
destructuring_get(st, key) ==
  (st.destructuring_vars[CHOOSE i \in 1..Len(st.destructuring_vars) :
                           st.destructuring_vars[i].key = key]).outvars

\* the body of the loop over sorted_tracers, for tracer t
t2j_step(h, in_tracers, st, t) ==
  LET recipe == h[t].recipe
      emit(e, key) == [e.st EXCEPT !.eqns = Append(@, e.v), !.keys = Append(@, key)]
      emit_eqn(outvar) == emit(eqn_tracer_to_var(outvar.st, <<outvar.v>>, recipe), 0)
      bind_var(v, val, env) ==
        IF env THEN [v.st EXCEPT !.env = Append(@, [var |-> v.v, val |-> val])]
        ELSE [v.st EXCEPT !.consts = Append(@, [var |-> v.v, val |-> val])]
      destructured(outvars, e) ==
        [emit(e, recipe.key) EXCEPT
           !.destructuring_vars = Append(@, [key |-> recipe.key, outvars |-> outvars.v]),
           !.t_to_var[t] = outvars.v[recipe.i]]
      emit_destructuring(outvars) ==
        destructured(outvars, eqn_tracer_to_var(outvars.st, outvars.v, recipe.eqn))
  IN  IF recipe.k = "JaxprEqn" THEN emit_eqn(var(st, t))
      ELSE IF recipe.k = "LambdaBinding" THEN
        IF in_tracers = <<>> THEN [st EXCEPT !.err = AssertionError] ELSE st
      ELSE IF recipe.k = "FreeVar" THEN bind_var(var(st, t), recipe.val, TRUE)
      ELSE IF recipe.k = "ConstVar" THEN bind_var(var(st, t), recipe.val, FALSE)
      ELSE IF recipe.k = "Destructuring" THEN
        IF ~destructuring_has(st, recipe.key)
        THEN emit_destructuring(newvars(st, Len(recipe.eqn.outvars)))
        ELSE [st EXCEPT !.t_to_var[t] = destructuring_get(st, recipe.key)[recipe.i]]
      ELSE IF recipe = unit THEN [st EXCEPT !.t_to_var[t] = unitvar]
      ELSE [st EXCEPT !.err = TypeError]

RECURSIVE t2j_loop(_, _, _, _)
t2j_loop(h, in_tracers, st, ts) ==
  IF ts = <<>> \/ st.err # None THEN st
  ELSE t2j_loop(h, in_tracers, t2j_step(h, in_tracers, st, Head(ts)), Tail(ts))

\* tracers_to_jaxpr: jaxpr, const_vals, env_vals; err holds the exception
\* when one is raised; t_to_var, keys and sorted_tracers are kept for
\* the statements about the walk
tracers_to_jaxpr(h, in_tracers, out_tracer) ==
  LET finish(sorted_tracers, invars, st, outvar) ==
        [err |-> st.err,
         jaxpr |-> Jaxpr([i \in 1..Len(st.consts) |-> st.consts[i].var],
                         [i \in 1..Len(st.env) |-> st.env[i].var],
                         invars.v, outvar.v, st.eqns),
         const_vals |-> [i \in 1..Len(st.consts) |-> st.consts[i].val],
         env_vals |-> [i \in 1..Len(st.env) |-> st.env[i].val],
         t_to_var |-> outvar.st.t_to_var,
         keys |-> st.keys,
         sorted_tracers |-> sorted_tracers]
      walked(sorted_tracers, invars, st) ==
        finish(sorted_tracers, invars, st, var(st, out_tracer.id))
      walk(sorted_tracers, invars) ==
        walked(sorted_tracers, invars, t2j_loop(h, in_tracers, invars.st, sorted_tracers))
  IN  walk(toposort(h, out_tracer.id), map_var(T2JState(Len(h)), Ids(in_tracers)))

(***************************************************************************)
(* eval_jaxpr_raw(jaxpr, consts, freevar_vals, *args)                      *)
(***************************************************************************)
KeyError == [k |-> "error", exc |-> "KeyError"]

\* read(v) in the environment env, a sequence of bindings
InEnv(env, v) == \E i \in 1..Len(env) : env[i].var = v

read(env, v) ==
  IF InEnv(env, v)
  THEN env[CHOOSE i \in 1..Len(env) : env[i].var = v /\ \A j \in (i+1)..Len(env) : env[j].var # v].val
  ELSE KeyError

\* map(read, vs): the values, or the first exception
map_read(env, vs) ==
  LET rs == [i \in 1..Len(vs) |-> read(env, vs[i])]
  IN  IF FirstErr(rs) # None THEN FirstErr(rs) ELSE PyList(rs)

\* faulty variant of map(write, vs, vals): the values are bound in reverse
map_write_reversed(env, vs, vals) ==
  IF IsErr(env) THEN env
  ELSE PyList(env.e \o [i \in 1..Len(vs) |-> [var |-> vs[i], val |-> vals[Len(vals) + 1 - i]]])

\* map(write, vs, vals): the environment, or the exception of safe_map
map_write(env, vs, vals) ==
  IF IsErr(env) THEN env
  ELSE IF Len(vs) # Len(vals) THEN AssertionError
  ELSE PyList(env.e \o [i \in 1..Len(vs) |-> [var |-> vs[i], val |-> vals[i]]])

RECURSIVE eval_jaxpr_raw(_, _, _, _)
RECURSIVE eval_eqns(_, _)

\* one equation: the values it writes, or the exception it raises
eval_eqn(env, eqn) ==
  LET stacked_of(ans) ==
        IF IsErr(ans) \/ eqn.primitive # "map" THEN ans ELSE map_stack(eqn.params.axis_size, ans)
      outvals(ans) ==
        IF IsErr(ans) THEN ans
        ELSE IF eqn.destructure
             THEN IF ans.k # "tup" THEN TypeError ELSE PyList(ans.e)
             ELSE PyList(<<ans>>)
      call(in_vals, b, const_bindings, freevar_bindings) ==
        IF IsErr(const_bindings) THEN const_bindings
        ELSE IF IsErr(freevar_bindings) THEN freevar_bindings
        ELSE outvals(stacked_of(eval_jaxpr_raw(b.jaxpr, const_bindings.e,
                                               freevar_bindings.e, in_vals.e)))
      apply(in_vals) ==
        IF IsErr(in_vals) THEN in_vals
        ELSE IF eqn.primitive \in Arith THEN
          IF Len(in_vals.e) # 2 THEN TypeError
          ELSE outvals(arith_impl(eqn.primitive, in_vals.e[1], in_vals.e[2]))
        ELSE IF eqn.primitive = "pack" THEN outvals(pack(in_vals.e))
        ELSE IF eqn.primitive = "id" THEN
          IF Len(in_vals.e) # 1 THEN TypeError ELSE outvals(in_vals.e[1])
        ELSE call(IF eqn.primitive = "map"
                  THEN PyList([i \in 1..Len(in_vals.e) |-> map_element(in_vals.e[i])])
                  ELSE in_vals,
                  eqn.bound_subjaxprs[1],
                  map_read(env, eqn.bound_subjaxprs[1].consts),
                  map_read(env, eqn.bound_subjaxprs[1].freevars))
  IN  apply(map_read(env, eqn.invars))

eval_eqns(env, eqns) ==
  LET write_out(outvals) ==
        IF IsErr(outvals) THEN outvals
        ELSE eval_eqns(map_write(env, Head(eqns).outvars, outvals.e), Tail(eqns))
  IN  IF eqns = <<>> \/ IsErr(env) THEN env
      ELSE write_out(eval_eqn(env.e, Head(eqns)))

eval_jaxpr_raw(jaxpr, consts, freevar_vals, args) ==
  LET read_out(env) == IF IsErr(env) THEN env ELSE read(env.e, jaxpr.outvar)
      env0 == PyList(<<[var |-> unitvar, val |-> unit]>>)
  IN  read_out(eval_eqns(map_write(map_write(map_write(env0, jaxpr.constvars, consts),
                                             jaxpr.invars, args),
                                   jaxpr.freevars, freevar_vals),
                         jaxpr.eqns))

(***************************************************************************)
(* The partial values the lattice operations are applied to: known         *)
(* scalars and tuples, abstract arrays and tuples, and the composites that *)
(* pack_pvals builds from a mixture of known and abstract elements.        *)
(***************************************************************************)
Shapes == {<<>>, <<2>>}

ScalarVals == {Arr(v, <<>>) : v \in 0..MaxVal}

TupleVals == {JaxTuple(<<a>>) : a \in ScalarVals}
             \cup {JaxTuple(<<a, b>>) : a \in ScalarVals, b \in ScalarVals}

LeafAvals == {ConcreteArray(v, <<>>) : v \in 0..MaxVal} \cup {ShapedArray(sh) : sh \in Shapes}

TupleAvals == {AbstractTuple(<<a>>) : a \in LeafAvals}
              \cup {AbstractTuple(<<a, b>>) : a \in LeafAvals, b \in LeafAvals}

KnownPVals == {PartialVal(None, c) : c \in ScalarVals \cup TupleVals}

AbstractPVals == {PartialVal(a, unit) : a \in LeafAvals \cup TupleAvals}

LeafPVals == {PartialVal(None, c) : c \in ScalarVals} \cup {PartialVal(a, unit) : a \in LeafAvals}

CompositePVals ==
  {pack_pvals(<<p, q>>) : p \in LeafPVals, q \in LeafPVals} \ (KnownPVals \cup AbstractPVals)

PVals == KnownPVals \cup AbstractPVals \cup CompositePVals

\* computed values handed to merge_pvals: unit stands where a part is known
MergeLeafVals == ScalarVals \cup {unit}

MergeVals == MergeLeafVals \cup {JaxTuple(<<a>>) : a \in MergeLeafVals}
             \cup {JaxTuple(<<a, b>>) : a \in MergeLeafVals, b \in MergeLeafVals}

NoResult == [k |-> "noresult"]

(***************************************************************************)
(* State.                                                                  *)
(***************************************************************************)
VARIABLES
  jp1, jp2, jp3,   \* the operands of join_pvals
  jres,            \* the outcomes of the join_pvals calls made so far
  jpc,             \* the position of the join driver
  mval, mpval,     \* the operands of merge_pvals
  mres,            \* the outcome of merge_pvals
  trace_stack,     \* the interpreter-level stack: the masters pushed by new_master
  frames,          \* the running calls of trace_to_jaxpr, compiled_call_impl
                   \* and process_call, innermost last
  heap,            \* the live tracers
  exc,             \* the exception that is propagating, None when none is
  raised_at,       \* the number of open new_master scopes when exc was raised
  last,            \* what the last call of tracers_to_jaxpr was given and returned
  result,          \* what the last finished call returned
  api_in,          \* the function and the argument of a call of the api
  api_out,         \* the outcomes of the api calls made so far
  jit_cache,       \* the signatures a jit-wrapped function was compiled for
  body_runs        \* how often the body of the jit-wrapped function has run

joinVars == <<jp1, jp2, jp3, jres, jpc>>

mergeVars == <<mval, mpval, mres>>

engineVars == <<trace_stack, frames, heap, exc, raised_at, last, result>>

apiVars == <<api_in, api_out, jit_cache, body_runs>>

vars == <<jp1, jp2, jp3, jres, jpc, mval, mpval, mres,
          trace_stack, frames, heap, exc, raised_at, last, result,
          api_in, api_out, jit_cache, body_runs>>

NoJoins == [j12 |-> NoResult, j21 |-> NoResult, j23 |-> NoResult, j11 |-> NoResult,
            jl |-> NoResult, jr |-> NoResult]

JoinIdle == jp1 = None /\ jp2 = None /\ jp3 = None /\ jres = NoJoins /\ jpc = "idle"

MergeIdle == mval = unit /\ mpval = None /\ mres = NoResult

ApiIdle == api_in = None /\ api_out = NoResult /\ jit_cache = {} /\ body_runs = 0

EngineIdle == /\ trace_stack = <<>> /\ frames = <<>> /\ heap = <<>> /\ exc = None
              /\ raised_at = 0 /\ last = NoResult /\ result = NoResult

(***************************************************************************)
(* The join driver: join_pvals on the operands, then on the outcomes.      *)
(***************************************************************************)
JoinInit == /\ jp1 \in PVals /\ jp2 \in PVals /\ jp3 \in PVals
            /\ jres = NoJoins /\ jpc = "start"
            /\ MergeIdle /\ EngineIdle /\ ApiIdle

JoinOperands ==
  /\ jpc = "start"
  /\ jres' = [jres EXCEPT !.j12 = join_pvals(jp1, jp2), !.j21 = join_pvals(jp2, jp1),
                          !.j23 = join_pvals(jp2, jp3), !.j11 = join_pvals(jp1, jp1)]
  /\ jpc' = "joined"
  /\ UNCHANGED <<jp1, jp2, jp3, mergeVars, engineVars, apiVars>>

JoinOutcomes ==
  /\ jpc = "joined"
  /\ jres' = [jres EXCEPT !.jl = join_pvals_of(jres.j12, jp3),
                          !.jr = join_pvals_of(jp1, jres.j23)]
  /\ jpc' = "nested"
  /\ UNCHANGED <<jp1, jp2, jp3, mergeVars, engineVars, apiVars>>

JoinNext == JoinOperands \/ JoinOutcomes

SpecJoin == JoinInit /\ [][JoinNext]_vars

(***************************************************************************)
(* The merge driver.                                                       *)
(***************************************************************************)
MergeInit == /\ mval \in MergeVals /\ mpval \in PVals /\ mres = NoResult
             /\ JoinIdle /\ EngineIdle /\ ApiIdle

MergePvals ==
  /\ mres = NoResult
  /\ mres' = merge_pvals(mval, mpval)
  /\ UNCHANGED <<mval, mpval, joinVars, engineVars, apiVars>>

MergeNext == MergePvals

SpecMerge == MergeInit /\ [][MergeNext]_vars

(***************************************************************************)
(* The interpreter-level stack.                                            *)
(***************************************************************************)
\* core.new_master on entry: a master of the next level is pushed
new_master(stack, trace_type, dynamic) ==
  Append(stack, [level |-> Len(stack), trace_type |-> trace_type, dynamic |-> dynamic])

\* core.new_master on exit: the master is popped
new_master_exit(stack) == Front(stack)

\* faulty variant of the with statement: the master is popped on a normal
\* exit only
with_new_master_leak(stack, raised) == IF raised THEN stack ELSE Front(stack)

\* faulty variant of the with statement: the oldest master is popped
with_new_master_fifo(stack, raised) == Tail(stack)

\* the with statement of trace_to_jaxpr and compiled_call_impl: the stack
\* after the block is left, normally or (raised) by an exception
with_new_master_exit(stack, raised) == new_master_exit(stack)

(***************************************************************************)
(* The partial evaluator at work.  A frame is a running call: its kind,    *)
(* its trace, the size of the heap when it was entered (base), its input   *)
(* tracers, the tracers its function body holds (locals) and the depth of  *)
(* the level stack before it was entered (depth0).                         *)
(***************************************************************************)
Top == frames[Len(frames)]

IsMaster(f) == f.kind \in {"trace_to_jaxpr", "compiled_call_impl"}

NumMasters == Cardinality({i \in 1..Len(frames) : IsMaster(frames[i])})

Running == frames # <<>> /\ exc = None

\* abstractify(x)
abstractify(x) == PartialVal(get_aval(x), unit)

\* map(self.new_instantiated_const, consts)
RECURSIVE new_instantiated_consts(_, _, _)
new_instantiated_consts(h, trace, consts) ==
  IF consts = <<>> THEN Outcome(h, <<>>)
  ELSE LET r == new_instantiated_const(h, trace, Head(consts))
           rest == new_instantiated_consts(r.heap, trace, Tail(consts))
       IN  Outcome(rest.heap, <<r.out>> \o rest.out)

\* the inputs of a traced function: a partial value and the argument it
\* stands for
PairVal == JaxTuple(<<Arr(0, <<>>), Arr(1, <<>>)>>)

\* the scalars a function is called on
EngineVals == {Arr(v, <<>>) : v \in 0..MaxVal}

\* the constant a function body uses
BodyConsts == {Arr(MaxVal, <<>>)}

\* an abstract input of trace_to_jaxpr stands for no argument in particular:
\* val is one of the arguments it may stand for
InArgs ==
  {[pval |-> PartialVal(ShapedArray(<<>>), unit), val |-> Arr(0, <<>>)],
   [pval |-> PartialVal(None, Arr(MaxVal, <<>>)), val |-> Arr(MaxVal, <<>>)],
   [pval |-> PartialVal(AbstractTuple(<<ShapedArray(<<>>), ShapedArray(<<>>)>>), unit),
    val |-> PairVal]}

\* inputs with a leading axis of MaxAxis elements, for mapped calls
MappedArgs ==
  {[pval |-> PartialVal(ShapedArray(<<MaxAxis>>), unit), val |-> Arr(0, <<MaxAxis>>)],
   [pval |-> PartialVal(AbstractTuple(<<ShapedArray(<<MaxAxis>>), ShapedArray(<<MaxAxis>>)>>),
                        unit),
    val |-> JaxTuple(<<Arr(0, <<MaxAxis>>), Arr(1, <<MaxAxis>>)>>)]}

InArgLists == {<<a>> : a \in InArgs \cup MappedArgs}
              \cup {<<a, b>> : a \in {ia \in InArgs : IsAbstractValue(ia.pval.pv)},
                               b \in {ib \in InArgs : ib.val # PairVal}}

CallArgs == EngineVals \cup {PairVal}

CallArgLists == {<<a>> : a \in CallArgs} \cup {<<a, b>> : a \in EngineVals, b \in EngineVals}

\* map(trace.new_arg, pvals)
RECURSIVE new_args(_, _, _)
new_args(h, trace, ins) ==
  IF ins = <<>> THEN Outcome(h, <<>>)
  ELSE LET r == new_arg(h, trace, Head(ins).pval, Head(ins).val)
           rest == new_args(r.heap, trace, Tail(ins))
       IN  Outcome(rest.heap, <<r.out>> \o rest.out)

\* what the body of the running function can name: constants, the tracers it
\* holds and, in a callee traced by process_call, those of its callers
MasterIndex == CHOOSE i \in 1..Len(frames) :
                 IsMaster(frames[i]) /\ \A j \in (i+1)..Len(frames) : ~IsMaster(frames[j])

Visible == IF frames = <<>> THEN {}
           ELSE UNION {frames[i].locals : i \in MasterIndex..Len(frames)}

Operands == BodyConsts \cup Visible

\* core.cur_sublevel: one sublevel for every call in progress
cur_sublevel ==
  Cardinality({i \in 1..Len(frames) : frames[i].kind \in {"process_call", "process_map"}})

\* the operations applied so far by the bodies of the running calls
RECURSIVE OpsOf(_)
OpsOf(fs) == IF fs = <<>> THEN 0 ELSE Head(fs).ops + OpsOf(Tail(fs))

OpsLeft == OpsOf(frames) < MaxOps

\* core.find_top_trace: the highest trace among the tracers of args
find_top_trace(h, args) ==
  LET ts == {h[args[i].id].trace : i \in {j \in 1..Len(args) : IsTracer(args[j])}}
  IN  CHOOSE t \in ts : \A u \in ts : u = t \/ TraceLess(u, t)

Hold(refs) == [frames EXCEPT ![Len(frames)].locals = @ \cup {r \in refs : IsTracer(r)},
                             ![Len(frames)].ops = @ + 1]

\* the running calls when the innermost body makes a call, one of its operations
Called == IF frames = <<>> THEN frames ELSE [frames EXCEPT ![Len(frames)].ops = @ + 1]

SeqRange(q) == {q[i] : i \in 1..Len(q)}

\* an exception is raised in the body of the innermost frame
Raise(e) == /\ exc' = e
            /\ raised_at' = NumMasters
            /\ UNCHANGED <<trace_stack, frames, heap, last, result>>

\* trace_to_jaxpr(fun, pvals) up to the call of fun: new_master, and
\* trace_to_subjaxpr makes the input tracers
TraceToJaxpr(ins) ==
  /\ UNCHANGED <<joinVars, mergeVars, apiVars>>
  /\ frames = <<>> \/ (Running /\ OpsLeft)
  /\ Len(frames) < MaxDepth
  /\ Len(heap) + Len(ins) <= MaxTracers
  /\ LET stack == new_master(trace_stack, "JaxprTrace", FALSE)
         trace == JaxprTrace(Last(stack).level, cur_sublevel)
         r == new_args(heap, trace, ins)
     IN  /\ trace_stack' = stack
         /\ heap' = r.heap
         /\ frames' = Append(Called, [kind |-> "trace_to_jaxpr", trace |-> trace,
                                      base |-> Len(heap), in_tracers |-> r.out,
                                      locals |-> SeqRange(r.out), ops |-> 0,
                                      depth0 |-> Len(trace_stack)])
  /\ exc' = None
  /\ raised_at' = 0
  /\ last' = NoResult
  /\ result' = NoResult

\* compiled_call_impl(fun, *args) up to the call of fun
CompiledCallImpl(args) ==
  /\ UNCHANGED <<joinVars, mergeVars, apiVars>>
  /\ frames = <<>> \/ (Running /\ OpsLeft)
  /\ Len(frames) < MaxDepth
  /\ Len(heap) + Len(args) <= MaxTracers
  /\ LET stack == new_master(trace_stack, "JaxprTrace", TRUE)
         trace == JaxprTrace(Last(stack).level, cur_sublevel)
         pvals == [i \in 1..Len(args) |-> [pval |-> abstractify(args[i]), val |-> args[i]]]
         r == new_args(heap, trace, pvals)
     IN  /\ trace_stack' = stack
         /\ heap' = r.heap
         /\ frames' = Append(Called, [kind |-> "compiled_call_impl", trace |-> trace,
                                      base |-> Len(heap), in_tracers |-> r.out,
                                      locals |-> SeqRange(r.out), ops |-> 0,
                                      depth0 |-> Len(trace_stack)])
  /\ exc' = None
  /\ raised_at' = 0
  /\ last' = NoResult
  /\ result' = NoResult

\* the body applies an arithmetic primitive
Bind(primitive, a, b) ==
  /\ UNCHANGED <<joinVars, mergeVars, apiVars>>
  /\ Running
  /\ OpsLeft
  /\ IsTracer(a)
  /\ LET done(r) ==
           /\ Len(r.heap) <= MaxTracers
           /\ IF IsErr(r.out) THEN Raise(r.out)
              ELSE /\ heap' = r.heap
                   /\ frames' = Hold({r.out})
                   /\ UNCHANGED <<trace_stack, exc, raised_at, last, result>>
     IN  done(bind(heap, find_top_trace(heap, <<a, b>>), primitive, <<a, b>>))

\* the body packs two values
Pack(a, b) ==
  /\ UNCHANGED <<joinVars, mergeVars, apiVars>>
  /\ Running
  /\ OpsLeft
  /\ IsTracer(a)
  /\ LET done(r) ==
           /\ Len(r.heap) <= MaxTracers
           /\ heap' = r.heap
           /\ frames' = Hold({r.out})
           /\ UNCHANGED <<trace_stack, exc, raised_at, last, result>>
     IN  done(core_pack(heap, find_top_trace(heap, <<a, b>>), <<a, b>>))

\* the body unpacks a tracer
Unpack(t) ==
  /\ UNCHANGED <<joinVars, mergeVars, apiVars>>
  /\ Running
  /\ OpsLeft
  /\ LET done(r) ==
           /\ Len(r.heap) <= MaxTracers
           /\ IF IsErr(r.out) THEN Raise(r.out)
              ELSE /\ heap' = r.heap
                   /\ frames' = Hold(SeqRange(r.out.e))
                   /\ UNCHANGED <<trace_stack, exc, raised_at, last, result>>
     IN  done(unpack(heap, t))

\* what tracers_to_jaxpr was given and returned
Walk(h, in_tracers, out_tracer, t2j) ==
  [k |-> "walk", heap |-> h, in_tracers |-> in_tracers, out_tracer |-> out_tracer,
   jaxpr |-> t2j.jaxpr, const_vals |-> t2j.const_vals, env_vals |-> t2j.env_vals,
   t_to_var |-> t2j.t_to_var, keys |-> t2j.keys, sorted_tracers |-> t2j.sorted_tracers]

\* the value of out when the function is run directly
DirectVal(h, out) == IF IsTracer(out) THEN h[out.id].val ELSE out

\* an exception is raised after tracers_to_jaxpr has returned
RaiseAfterWalk(e, walk) ==
  /\ exc' = e
  /\ raised_at' = NumMasters
  /\ last' = walk
  /\ UNCHANGED <<trace_stack, frames, heap, result>>

\* trace_to_jaxpr from the return of fun: trace_to_subjaxpr raises the
\* output and calls tracers_to_jaxpr, env must be empty, the master is popped
TraceToJaxprReturn(out) ==
  /\ UNCHANGED <<joinVars, mergeVars, apiVars>>
  /\ Running
  /\ Top.kind = "trace_to_jaxpr"
  /\ LET return(raised, t2j) ==
           IF t2j.err # None THEN Raise(t2j.err)
           ELSE IF t2j.env_vals # <<>>
           THEN RaiseAfterWalk(AssertionError,
                               Walk(raised.heap, Top.in_tracers, raised.out, t2j))
           ELSE /\ last' = Walk(raised.heap, Top.in_tracers, raised.out, t2j)
                /\ result' = [k |-> "trace_to_jaxpr", jaxpr |-> t2j.jaxpr,
                              out_pval |-> raised.heap[raised.out.id].pval,
                              consts |-> t2j.const_vals]
                /\ trace_stack' = with_new_master_exit(trace_stack, FALSE)
                /\ frames' = Front(frames)
                /\ heap' = SubSeq(heap, 1, Top.base)
                /\ UNCHANGED <<exc, raised_at>>
         walk(raised) ==
           IF IsErr(raised.out) THEN Raise(raised.out)
           ELSE return(raised, tracers_to_jaxpr(raised.heap, Top.in_tracers, raised.out))
     IN  walk(full_raise(heap, Top.trace, out))

\* compiled_call_impl from the return of fun: the program is replayed on
\* the arguments and merged with the output partial value
CompiledCallImplReturn(out) ==
  /\ UNCHANGED <<joinVars, mergeVars, apiVars>>
  /\ Running
  /\ Top.kind = "compiled_call_impl"
  /\ LET args == [i \in 1..Len(Top.in_tracers) |-> heap[Top.in_tracers[i].id].val]
         return(raised, t2j, pval, ans) ==
           IF IsErr(ans)
           THEN RaiseAfterWalk(ans, Walk(raised.heap, Top.in_tracers, raised.out, t2j))
           ELSE /\ last' = Walk(raised.heap, Top.in_tracers, raised.out, t2j)
                /\ result' = [k |-> "compiled_call_impl", ans |-> ans,
                              direct |-> DirectVal(heap, out), jaxpr |-> t2j.jaxpr,
                              out_pval |-> pval]
                /\ trace_stack' = with_new_master_exit(trace_stack, FALSE)
                /\ frames' = Front(frames)
                /\ heap' = SubSeq(heap, 1, Top.base)
                /\ UNCHANGED <<exc, raised_at>>
         merge(raised, t2j, pval, jaxpr_ans) ==
           return(raised, t2j, pval,
                  IF IsErr(jaxpr_ans) THEN jaxpr_ans ELSE merge_pvals(jaxpr_ans, pval))
         replay(raised, t2j) ==
           IF t2j.err # None THEN Raise(t2j.err)
           ELSE merge(raised, t2j, raised.heap[raised.out.id].pval,
                      eval_jaxpr_raw(t2j.jaxpr, t2j.const_vals, t2j.env_vals, args))
         walk(raised) ==
           IF IsErr(raised.out) THEN Raise(raised.out)
           ELSE replay(raised, tracers_to_jaxpr(raised.heap, Top.in_tracers, raised.out))
     IN  walk(full_raise(heap, Top.trace, out))

\* core.call_bind and JaxprTrace.process_call up to the call of f: the
\* arguments are raised to the top trace, partial_eval hands their partial
\* values to trace_to_subjaxpr, which runs f one sublevel up
ProcessCall(args) ==
  /\ UNCHANGED <<joinVars, mergeVars, apiVars>>
  /\ Running
  /\ OpsLeft
  /\ Len(frames) < MaxDepth
  /\ find_top_trace(heap, args) = Top.trace
  /\ LET trace == JaxprTrace(Top.trace.level, cur_sublevel + 1)
         enter(raised, r) ==
           /\ Len(r.heap) <= MaxTracers
           /\ heap' = r.heap
           /\ frames' = Append(Called,
                               [kind |-> "process_call", trace |-> trace,
                                base |-> Len(raised.heap), in_tracers |-> r.out,
                                locals |-> SeqRange(r.out), ops |-> 0,
                                depth0 |-> Len(trace_stack), tracers |-> raised.out])
         partial_eval(raised) ==
           enter(raised,
                 new_args(raised.heap, trace,
                          [i \in 1..Len(raised.out) |->
                             [pval |-> raised.heap[raised.out[i].id].pval,
                              val |-> raised.heap[raised.out[i].id].val]]))
     IN  partial_eval(full_raise_all(heap, Top.trace, args))
  /\ UNCHANGED <<trace_stack, exc, raised_at, last, result>>

\* JaxprTrace.process_call from the return of f: trace_to_subjaxpr makes the
\* sub-program, and the caller's trace records one equation that embeds it
ProcessCallReturn(out) ==
  /\ UNCHANGED <<joinVars, mergeVars, apiVars>>
  /\ Running
  /\ Top.kind = "process_call"
  /\ LET self == JaxprTrace(Top.trace.level, Top.trace.sublevel - 1)
         return(raised, t2j, h1) ==
           /\ last' = Walk(raised.heap, Top.in_tracers, raised.out, t2j)
           /\ heap' = h1
           /\ frames' = [Front(frames) EXCEPT ![Len(frames) - 1].locals =
                           @ \cup {r \in {full_lower(h1, TracerRef(Len(h1)))} : IsTracer(r)}]
           /\ UNCHANGED <<trace_stack, exc, raised_at, result>>
         record(raised, t2j, const_tracers, env_tracers) ==
           return(raised, t2j,
                  Append(env_tracers.heap,
                         JaxprTracer(self, raised.heap[raised.out.id].pval,
                                     JaxprEqn(Top.tracers, <<>>, "call",
                                              <<[jaxpr |-> t2j.jaxpr,
                                                 consts |-> const_tracers.out,
                                                 freevars |-> env_tracers.out]>>,
                                              FALSE, NoParams),
                                     DirectVal(heap, out))))
         raise_env(raised, t2j, const_tracers) ==
           record(raised, t2j, const_tracers,
                  full_raise_all(const_tracers.heap, self, t2j.env_vals))
         instantiate(raised, t2j) ==
           IF t2j.err # None THEN Raise(t2j.err)
           ELSE raise_env(raised, t2j,
                          new_instantiated_consts(raised.heap, self, t2j.const_vals))
         walk(raised) ==
           IF IsErr(raised.out) THEN Raise(raised.out)
           ELSE instantiate(raised, tracers_to_jaxpr(raised.heap, Top.in_tracers, raised.out))
     IN  walk(full_raise(heap, Top.trace, out))

\* JaxprTrace.process_map up to the call of f: as process_call, but f is
\* traced on the partial values with the mapped axis removed, and on one
\* element of the known arguments
ProcessMap(args, axis_size) ==
  /\ UNCHANGED <<joinVars, mergeVars, apiVars>>
  /\ Running
  /\ OpsLeft
  /\ Len(frames) < MaxDepth
  /\ find_top_trace(heap, args) = Top.trace
  /\ LET trace == JaxprTrace(Top.trace.level, cur_sublevel + 1)
         enter(raised, r) ==
           /\ Len(r.heap) <= MaxTracers
           /\ heap' = r.heap
           /\ frames' = Append(Called,
                               [kind |-> "process_map", trace |-> trace,
                                base |-> Len(raised.heap), in_tracers |-> r.out,
                                locals |-> SeqRange(r.out), ops |-> 0,
                                depth0 |-> Len(trace_stack), tracers |-> raised.out,
                                axis_size |-> axis_size])
           /\ UNCHANGED <<trace_stack, exc, raised_at, last, result>>
         partial_eval(raised, reduced_pvs) ==
           IF FirstErr(reduced_pvs) # None THEN Raise(FirstErr(reduced_pvs))
           ELSE enter(raised,
                      new_args(raised.heap, trace,
                               [i \in 1..Len(raised.out) |->
                                  [pval |-> PartialVal(reduced_pvs[i],
                                              IF reduced_pvs[i] = None
                                              THEN map_element(raised.heap[raised.out[i].id].pval.const)
                                              ELSE raised.heap[raised.out[i].id].pval.const),
                                   val |-> map_element(raised.heap[raised.out[i].id].val)]]))
         reduce(raised) ==
           partial_eval(raised, [i \in 1..Len(raised.out) |->
                                   remove_axis_from_pv(raised.heap[raised.out[i].id].pval.pv)])
     IN  reduce(full_raise_all(heap, Top.trace, args))

\* JaxprTrace.process_map from the return of f: the mapped axis is added to
\* the output, the constants of the sub-program become inputs of the
\* equation, and the sub-program is embedded with env as its free variables
ProcessMapReturn(out) ==
  /\ UNCHANGED <<joinVars, mergeVars, apiVars>>
  /\ Running
  /\ Top.kind = "process_map"
  /\ LET self == JaxprTrace(Top.trace.level, Top.trace.sublevel - 1)
         jaxpr_converted(jaxpr) ==
           [jaxpr EXCEPT !.constvars = <<>>, !.invars = jaxpr.constvars \o jaxpr.invars]
         return(raised, t2j, h1) ==
           /\ last' = Walk(raised.heap, Top.in_tracers, raised.out, t2j)
           /\ heap' = h1
           /\ frames' = [Front(frames) EXCEPT ![Len(frames) - 1].locals =
                           @ \cup {r \in {full_lower(h1, TracerRef(Len(h1)))} : IsTracer(r)}]
           /\ UNCHANGED <<trace_stack, exc, raised_at, result>>
         record(raised, t2j, out_pval, out_pv, const_tracers, env_tracers) ==
           IF IsErr(out_pv) THEN Raise(out_pv)
           ELSE return(raised, t2j,
                  Append(env_tracers.heap,
                         JaxprTracer(self,
                                     PartialVal(out_pv,
                                                map_stack_known(Top.axis_size, out_pval.pv,
                                                                out_pval.const)),
                                     JaxprEqn(const_tracers.out \o Top.tracers, <<>>, "map",
                                              <<[jaxpr |-> jaxpr_converted(t2j.jaxpr),
                                                 consts |-> <<>>,
                                                 freevars |-> t2j.env_vals]>>,
                                              FALSE, [axis_size |-> Top.axis_size]),
                                     map_stack(Top.axis_size, DirectVal(heap, out)))))
         raise_env(raised, t2j, out_pval, const_tracers) ==
           record(raised, t2j, out_pval, add_axis_to_pv(Top.axis_size, out_pval.pv),
                  const_tracers, full_raise_all(const_tracers.heap, self, t2j.env_vals))
         instantiate(raised, t2j) ==
           IF t2j.err # None THEN Raise(t2j.err)
           ELSE raise_env(raised, t2j, raised.heap[raised.out.id].pval,
                          new_instantiated_consts(raised.heap, self,
                            [i \in 1..Len(t2j.const_vals) |->
                               map_stack(Top.axis_size, t2j.const_vals[i])]))
         walk(raised) ==
           IF IsErr(raised.out) THEN Raise(raised.out)
           ELSE instantiate(raised, tracers_to_jaxpr(raised.heap, Top.in_tracers, raised.out))
     IN  walk(full_raise(heap, Top.trace, out))

\* the exception leaves the innermost frame; the with statement of a
\* trace_to_jaxpr or compiled_call_impl frame releases its master
Unwind ==
  /\ UNCHANGED <<joinVars, mergeVars, apiVars>>
  /\ frames # <<>>
  /\ exc # None
  /\ trace_stack' = IF IsMaster(Top) THEN with_new_master_exit(trace_stack, TRUE)
                    ELSE trace_stack
  /\ frames' = Front(frames)
  /\ heap' = SubSeq(heap, 1, Top.base)
  /\ UNCHANGED <<exc, raised_at, last, result>>

Init == /\ EngineIdle /\ JoinIdle /\ MergeIdle /\ ApiIdle

Next ==
  \/ \E ins \in InArgLists : TraceToJaxpr(ins)
  \/ \E args \in CallArgLists : CompiledCallImpl(args)
  \/ \E p \in Arith : \E a \in Visible, b \in Operands : Bind(p, a, b)
  \/ \E a \in Visible, b \in Operands : Pack(a, b)
  \/ \E t \in Visible : Unpack(t)
  \/ \E a \in Visible : ProcessCall(<<a>>)
  \/ \E out \in Operands : ProcessCallReturn(out)
  \/ \E a \in Visible : ProcessMap(<<a>>, MaxAxis)
  \/ \E out \in Operands : ProcessMapReturn(out)
  \/ \E out \in Operands : TraceToJaxprReturn(out)
  \/ \E out \in Operands : CompiledCallImplReturn(out)
  \/ Unwind

Spec == Init /\ [][Next]_vars

(***************************************************************************)
(* Properties of the interpreter-level stack (Spec).                       *)
(***************************************************************************)
\* C1: whatever nested new_master scopes are open, and however the closed
\* ones were left (returned or raised), the level stack holds exactly one
\* master per open scope and every running call sits on the stack depth it
\* was entered at: leaving a scope, by return or by exception, restores the
\* depth before its entry, and with no call running the stack is empty.
C1_LevelStackBalance ==
  /\ Len(trace_stack) = NumMasters
  /\ \A i \in 1..Len(frames) :
       frames[i].depth0 = Cardinality({j \in 1..(i - 1) : IsMaster(frames[j])})

\* an exception raised two scopes deep has left both scopes
C1_Witness ==
  frames = <<>> /\ exc # None /\ raised_at = 2 /\ trace_stack = <<>>

(***************************************************************************)
(* Properties of the programs tracers_to_jaxpr returns (Spec).             *)
(***************************************************************************)
\* the variables a program declares
Declared(j) == SeqRange(j.invars) \cup SeqRange(j.freevars) \cup SeqRange(j.constvars)

\* the variables an equation reads, the bindings of its sub-programs included
EqnInputs(e) ==
  SeqRange(e.invars)
    \cup UNION {SeqRange(b.consts) \cup SeqRange(b.freevars) : b \in SeqRange(e.bound_subjaxprs)}

\* the variables written by the equations strictly before the n-th
EarlierOutputs(j, n) == UNION {SeqRange(j.eqns[m].outvars) : m \in 1..(n - 1)}

\* every equation of j reads declared variables, earlier outputs or extra
Valid(j, extra) ==
  \A n \in 1..Len(j.eqns) :
    EqnInputs(j.eqns[n]) \subseteq (Declared(j) \cup EarlierOutputs(j, n) \cup extra)

\* C2: in every program returned by tracers_to_jaxpr every input of every
\* equation, sub-program bindings included, is a declared input, a free
\* variable, a constant variable or the output of a strictly earlier
\* equation; the variable of the unit constant, which eval_jaxpr_raw binds
\* before any equation runs, is allowed as well.
C2_TopologicalValidity == last.k = "walk" => Valid(last.jaxpr, {unitvar})

(***************************************************************************)
(* Replay (Spec).                                                          *)
(***************************************************************************)
\* the program has an equation with an embedded sub-program
HasCall(j) == \E n \in 1..Len(j.eqns) : j.eqns[n].bound_subjaxprs # <<>>

\* C3: when compiled_call_impl traces a function built from primitives
\* only, replays the program on the arguments and merges the replay result
\* with the output partial value, the answer equals the value the function
\* computes when it is run directly, and the replay does not fail.
C3_RoundTripReplay ==
  /\ (result.k = "compiled_call_impl" /\ ~HasCall(result.jaxpr))
       => result.ans = result.direct
  /\ (/\ exc # None /\ last.k = "walk" /\ frames # <<>>
      /\ Top.kind = "compiled_call_impl" /\ last.in_tracers = Top.in_tracers)
       => HasCall(last.jaxpr)

\* a program of two primitive equations was replayed and its output was
\* not known at trace time
C3_Witness ==
  /\ result.k = "compiled_call_impl"
  /\ Len(result.jaxpr.eqns) = 2
  /\ ~HasCall(result.jaxpr)
  /\ result.out_pval.pv # None

(***************************************************************************)
(* Destructuring (Spec).                                                   *)
(***************************************************************************)
\* the tracers of the last walk that came out of an unpack
DTracers ==
  {t \in SeqRange(last.sorted_tracers) : last.heap[t].recipe.k = "Destructuring"}

\* the equations of the last program emitted for the unpack identified by key
EqnsOfKey(key) == {n \in 1..Len(last.keys) : last.keys[n] = key}

\* C4: for every child tracer of an unpack that the program depends on,
\* the program holds exactly one destructuring equation for that unpack,
\* the equation has one output variable per element of the tuple, and the
\* child tracer is mapped to the output variable at its own index.
C4_DestructuringDedup ==
  last.k = "walk" =>
    \A t \in DTracers :
      /\ Cardinality(EqnsOfKey(last.heap[t].recipe.key)) = 1
      /\ \A n \in EqnsOfKey(last.heap[t].recipe.key) :
           /\ last.jaxpr.eqns[n].destructure
           /\ Len(last.jaxpr.eqns[n].outvars) = Len(last.heap[t].recipe.eqn.outvars)
           /\ last.t_to_var[t] = last.jaxpr.eqns[n].outvars[last.heap[t].recipe.i]

\* two children of the same unpack were consumed
C4_Witness ==
  /\ last.k = "walk"
  /\ \E t \in DTracers, u \in DTracers :
       t # u /\ last.heap[t].recipe.key = last.heap[u].recipe.key

(***************************************************************************)
(* Properties of join_pvals (SpecJoin).                                    *)
(***************************************************************************)
\* C5: join_pvals(p1, p2) fails exactly when join_pvals(p2, p1) fails, and
\* when they do not fail they return equal partial values.
C5_JoinCommutative ==
  jpc # "start" =>
    /\ IsErr(jres.j12) <=> IsErr(jres.j21)
    /\ ~IsErr(jres.j12) => jres.j12 = jres.j21

\* a known tuple was joined with a composite, giving a third partial value
C5_Witness ==
  /\ jpc = "joined"
  /\ jp1.pv = None
  /\ IsJaxprTracerTuple(jp2.pv)
  /\ ~IsErr(jres.j12)
  /\ jres.j12 # jp1
  /\ jres.j12 # jp2

\* C6: join_pvals(join_pvals(p1, p2), p3) equals
\* join_pvals(p1, join_pvals(p2, p3)).
C6_JoinAssociative == jpc = "nested" => jres.jl = jres.jr

\* C7: join_pvals(p, p) equals p.
C7_JoinIdempotent == jpc # "start" => jres.j11 = jp1

\* every value the abstraction a describes is described by b
RECURSIVE AvalCovers(_, _)
AvalCovers(b, a) ==
  IF b.k = "unshaped" THEN a.k # "atuple"
  ELSE IF b.k = "shaped" THEN a.k \in {"concrete", "shaped"} /\ a.sh = b.sh
  ELSE IF b.k = "concrete" THEN a = b
  ELSE /\ a.k = "atuple"
       /\ Len(a.e) = Len(b.e)
       /\ \A i \in 1..Len(b.e) : AvalCovers(b.e[i], a.e[i])

\* the partial value describes a tuple
IsTuplePval(p) ==
  IF p.pv = None THEN p.const.k = "tup" ELSE p.pv.k \in {"atuple", "jtt"}

\* the partial values of the elements of a tuple partial value
Elements(p) ==
  IF p.pv = None THEN [i \in 1..Len(p.const.e) |-> PartialVal(None, p.const.e[i])]
  ELSE IF p.pv.k = "atuple" THEN [i \in 1..Len(p.pv.e) |-> PartialVal(p.pv.e[i], unit)]
  ELSE [i \in 1..Len(p.pv.e) |-> PartialVal(p.pv.e[i], p.const.e[i])]

\* the partial value r is consistent with p: what p says of the value, r
\* says too or leaves open
RECURSIVE Consistent(_, _)
Consistent(p, r) ==
  IF p.pv = None /\ r.pv = None THEN p.const = r.const
  ELSE IF p.pv = None /\ IsAbstractValue(r.pv) THEN AvalCovers(r.pv, get_aval(p.const))
  ELSE IF IsAbstractValue(p.pv) /\ IsAbstractValue(r.pv) THEN AvalCovers(r.pv, p.pv)
  ELSE /\ IsTuplePval(p)
       /\ IsTuplePval(r)
       /\ Len(Elements(p)) = Len(Elements(r))
       /\ \A i \in 1..Len(Elements(p)) : Consistent(Elements(p)[i], Elements(r)[i])

\* C8: when join_pvals(p1, p2) returns, its result is consistent with p1
\* and with p2: a known value is an instance of the result's abstraction
\* or is the result's known value, an abstraction is covered by the
\* result's abstraction.
C8_JoinConsistent ==
  (jpc # "start" /\ ~IsErr(jres.j12)) =>
    Consistent(jp1, jres.j12) /\ Consistent(jp2, jres.j12)

\* what the case analysis says of two partial values that are not composite
JoinCase(p1, p2) ==
  IF p1.pv = None /\ p2.pv = None THEN
    IF get_aval(p1.const) = get_aval(p2.const) THEN p1
    ELSE IF IsErr(lattice_join(get_aval(p1.const), get_aval(p2.const)))
         THEN lattice_join(get_aval(p1.const), get_aval(p2.const))
         ELSE PartialVal(lattice_join(get_aval(p1.const), get_aval(p2.const)), unit)
  ELSE IF p1.pv = None THEN PartialVal(p2.pv, unit)
  ELSE IF p2.pv = None THEN PartialVal(p1.pv, unit)
  ELSE IF IsErr(lattice_join(p1.pv, p2.pv)) THEN lattice_join(p1.pv, p2.pv)
  ELSE PartialVal(lattice_join(p1.pv, p2.pv), unit)

\* C9: on operands that are not composite join_pvals returns: the first
\* operand when both are known with equal concrete abstractions; the
\* lattice join of the two concrete abstractions, as an abstract partial
\* value, when both are known and differ; the abstraction of the other
\* operand when exactly one is known; the lattice join of the two
\* abstractions when both are abstract.  It fails when the lattice join fails.
C9_JoinCaseAnalysis ==
  (jpc # "start" /\ ~IsJaxprTracerTuple(jp1.pv) /\ ~IsJaxprTracerTuple(jp2.pv))
    => jres.j12 = JoinCase(jp1, jp2)

\* a known scalar was joined with an abstract array
C9_Witness ==
  /\ jpc = "joined"
  /\ jp1.pv = None
  /\ jp1.const.k = "arr"
  /\ jp2.pv.k = "shaped"
  /\ jres.j12 = PartialVal(jp2.pv, unit)

(***************************************************************************)
(* Properties of merge_pvals (SpecMerge).                                  *)
(***************************************************************************)
\* r is, position by position, the constant where pv is known and the
\* computed value where pv is abstract
RECURSIVE MergedAt(_, _, _, _)
MergedAt(r, val, pv, const) ==
  IF pv = None THEN r = const
  ELSE IF IsAbstractValue(pv) THEN r = val
  ELSE /\ r.k = "tup"
       /\ Len(r.e) = Len(pv.e)
       /\ \A i \in 1..Len(pv.e) : MergedAt(r.e[i], val.e[i], pv.e[i], const.e[i])

\* C10: merge_pvals(val, pval) is, at every position, the constant of pval
\* where pval is known and the part of val where pval is abstract; on a
\* composite pval it goes element by element, and fails only when val is
\* not a tuple of as many elements.
C10_MergePositions ==
  /\ (mres # NoResult /\ ~IsErr(mres)) => MergedAt(mres, mval, mpval.pv, mpval.const)
  /\ IsErr(mres) => /\ IsJaxprTracerTuple(mpval.pv)
                    /\ (mval.k # "tup" \/ Len(mval.e) # Len(mpval.pv.e))

\* a composite was merged into a value that is neither the computed one
\* nor the recorded one
C10_Witness ==
  /\ mres # NoResult
  /\ IsJaxprTracerTuple(mpval.pv)
  /\ ~IsErr(mres)
  /\ mres # mval
  /\ mres # mpval.const

(***************************************************************************)
(* Raising and lowering: full_raise, pure/lift and full_lower applied to   *)
(* values and to the tracers made so far, for traces of several levels     *)
(* and sublevels (SpecRaise).                                              *)
(***************************************************************************)
RaiseTraces == {JaxprTrace(l, s) : l \in 0..MaxLevel, s \in 0..1}

RaiseVals == {Arr(0, <<>>)}

\* what can be raised or lowered: a value or a tracer made so far
RaiseOperands == RaiseVals \cup {TracerRef(i) : i \in 1..Len(heap)}

RaiseInit == EngineIdle /\ JoinIdle /\ MergeIdle /\ ApiIdle

\* trace.new_arg of an abstract input
RaiseNewArg(trace) ==
  /\ Len(heap) < MaxRaised
  /\ heap' = new_arg(heap, trace, PartialVal(ShapedArray(<<>>), unit), Arr(0, <<>>)).heap
  /\ result' = [k |-> "new_arg", trace |-> trace]
  /\ UNCHANGED <<joinVars, mergeVars, apiVars, trace_stack, frames, exc, raised_at, last>>

\* trace.full_raise(val)
FullRaise(trace, val) ==
  /\ Len(heap) < MaxRaised
  /\ LET done(r) ==
           /\ heap' = r.heap
           /\ result' = [k |-> "full_raise", trace |-> trace, val |-> val, out |-> r.out,
                         before |-> Len(heap)]
     IN  done(full_raise(heap, trace, val))
  /\ UNCHANGED <<joinVars, mergeVars, apiVars, trace_stack, frames, exc, raised_at, last>>

\* trace.pure(val), trace.lift(val)
Lift(trace, val) ==
  /\ Len(heap) < MaxRaised
  /\ LET done(r) ==
           /\ heap' = r.heap
           /\ result' = [k |-> "lift", trace |-> trace, val |-> val, out |-> r.out,
                         before |-> Len(heap)]
     IN  done(new_const(heap, trace, val))
  /\ UNCHANGED <<joinVars, mergeVars, apiVars, trace_stack, frames, exc, raised_at, last>>

\* core.full_lower(x), and full_lower of what it returned
FullLower(x) ==
  /\ LET done(out) ==
           result' = [k |-> "full_lower", val |-> x, out |-> out,
                      again |-> full_lower(heap, out)]
     IN  done(full_lower(heap, x))
  /\ UNCHANGED <<joinVars, mergeVars, apiVars, trace_stack, frames, heap, exc, raised_at, last>>

RaiseNext ==
  \/ \E trace \in RaiseTraces : RaiseNewArg(trace)
  \/ \E trace \in RaiseTraces, val \in RaiseOperands : FullRaise(trace, val)
  \/ \E trace \in RaiseTraces, val \in RaiseOperands : Lift(trace, val)
  \/ \E x \in RaiseOperands : FullLower(x)

SpecRaise == RaiseInit /\ [][RaiseNext]_vars

\* the tracer that was made last
IsNew(t) == IsTracer(t) /\ t.id = Len(heap) /\ result.before + 1 = Len(heap)

\* C11: full_raise of v to a trace T returns a tracer of T or raises.  An
\* untraced v gives a new known tracer holding v; a tracer of a lower trace
\* (lower level, or the same level and a lower sublevel) gives a new tracer
\* whose recipe is FreeVar(v) and whose partial value is that of v; a
\* tracer of T is returned as it is and nothing is made; a tracer of a
\* higher trace raises and nothing is made.  pure/lift of a tracer of T's
\* own level raises.
C11_FullRaise ==
  /\ result.k = "full_raise" =>
       IF ~IsTracer(result.val)
       THEN /\ IsNew(result.out)
            /\ heap[result.out.id].trace = result.trace
            /\ heap[result.out.id].pval = PartialVal(None, result.val)
            /\ heap[result.out.id].recipe = unit
       ELSE IF heap[result.val.id].trace = result.trace
       THEN result.out = result.val /\ Len(heap) = result.before
       ELSE IF TraceLess(heap[result.val.id].trace, result.trace)
       THEN /\ IsNew(result.out)
            /\ heap[result.out.id].trace = result.trace
            /\ heap[result.out.id].pval = heap[result.val.id].pval
            /\ heap[result.out.id].recipe = FreeVar(result.val)
       ELSE IsErr(result.out) /\ Len(heap) = result.before
  /\ (/\ result.k = "lift" /\ IsTracer(result.val)
      /\ heap[result.val.id].trace.level = result.trace.level)
       => IsErr(result.out) /\ Len(heap) = result.before

\* an abstract tracer of a lower level was raised
C11_Witness ==
  /\ result.k = "full_raise"
  /\ IsTracer(result.val)
  /\ heap[result.val.id].trace.level < result.trace.level
  /\ heap[result.val.id].pval.pv # None
  /\ IsNew(result.out)

\* x is fully known: an untraced value, or a known tracer whose constant is
\* fully known
RECURSIVE FullyKnown(_, _)
FullyKnown(h, x) ==
  ~IsTracer(x) \/ (h[x.id].pval.pv = None /\ FullyKnown(h, h[x.id].pval.const))

\* C12: full_lower of a fully known tracer, however it was raised (from an
\* untraced value, from a known tracer of a lower trace, or holding a known
\* tracer as its constant), is the untraced value it stands for, and
\* lowering that again changes nothing; full_lower of a tracer whose
\* partial value is not known is the tracer itself, and full_lower of an
\* untraced value is the value.
C12_FullLower ==
  result.k = "full_lower" =>
    /\ result.again = result.out
    /\ IF ~IsTracer(result.val) THEN result.out = result.val
       ELSE IF heap[result.val.id].pval.pv # None THEN result.out = result.val
       ELSE FullyKnown(heap, result.val) => result.out = heap[result.val.id].val

\* a known tracer that holds a known tracer of a lower level was lowered
C12_Witness ==
  /\ result.k = "full_lower"
  /\ IsTracer(result.val)
  /\ heap[result.val.id].pval.pv = None
  /\ IsTracer(heap[result.val.id].pval.const)
  /\ result.out = Arr(0, <<>>)

\* C16: a tracer held as the known constant of a tracer belongs to a trace
\* of a strictly lower level than its holder, and a tracer referred to by a
\* FreeVar recipe belongs to a strictly lower trace than the tracer that
\* refers to it; a tracer is made to hold or refer to another only that way.
C16_TracerLevels ==
  \A i \in 1..Len(heap) :
    /\ IsTracer(heap[i].pval.const)
         => heap[heap[i].pval.const.id].trace.level < heap[i].trace.level
    /\ heap[i].recipe.k = "FreeVar"
         => TraceLess(heap[heap[i].recipe.val.id].trace, heap[i].trace)
    /\ heap[i].recipe.k \notin {"FreeVar", "LambdaBinding"} => heap[i].recipe = unit

\* a tracer holds a tracer of a lower level, and lifting a tracer of a
\* higher level was refused
C16_Witness ==
  /\ \E i \in 1..Len(heap) : IsTracer(heap[i].pval.const)
  /\ result.k = "lift"
  /\ IsTracer(result.val)
  /\ heap[result.val.id].trace.level > result.trace.level
  /\ IsErr(result.out)

(***************************************************************************)
(* Order of the levels on the interpreter-level stack (Spec).              *)
(***************************************************************************)
\* the levels of the stack, bottom to top
Levels(stack) == [i \in 1..Len(stack) |-> stack[i].level]

\* the running calls that opened a level, outermost first
RECURSIVE Masters(_)
Masters(fs) == IF fs = <<>> THEN <<>>
               ELSE IF IsMaster(Head(fs)) THEN <<Head(fs)>> \o Masters(Tail(fs))
               ELSE Masters(Tail(fs))

\* the i-th open level is the level of the trace of the i-th open scope,
\* levels increase strictly from bottom to top, and every running call
\* traces at the level on top of the stack when it was entered
LevelsOrdered ==
  /\ \A i \in 1..Len(trace_stack) : \A j \in 1..Len(trace_stack) :
       i < j => trace_stack[i].level < trace_stack[j].level
  /\ Len(Masters(frames)) = Len(trace_stack)
  /\ \A i \in 1..Len(trace_stack) : Masters(frames)[i].trace.level = trace_stack[i].level
  /\ frames # <<>> => Top.trace.level = Last(trace_stack).level

\* a step pushes one level above every open one, pops the top one, or
\* leaves the stack alone
LifoStep ==
  \/ trace_stack' = trace_stack
  \/ /\ Len(trace_stack') = Len(trace_stack) + 1
     /\ Front(trace_stack') = trace_stack
     /\ \A i \in 1..Len(trace_stack) : trace_stack[i].level < Last(trace_stack').level
     /\ Top'.trace.level = Last(trace_stack').level
  \/ /\ trace_stack # <<>>
     /\ trace_stack' = Front(trace_stack)

\* C15: the levels of the open traces increase strictly from the bottom of
\* the stack to its top, a level is pushed on top of all the open ones (none
\* of which is closed by the push), the running call traces at the level
\* pushed last among the open ones, and a pop always removes the top of the
\* stack, so that levels are popped in the reverse order of their pushes.
C15_LifoLevels == [](LevelsOrdered) /\ [][LifoStep]_vars

\* a third level was pushed and popped while two levels stay open
C15_Witness ==
  /\ Len(trace_stack) = 2 /\ exc = None /\ last # NoResult
  /\ Levels(trace_stack) = <<0, 1>>

(***************************************************************************)
(* Mapped calls (Spec).                                                    *)
(***************************************************************************)
\* the tracer made last
NewestTracer == heap[Len(heap)]

\* process_map has just returned: the newest tracer holds a map equation
\* and the last walk was that of its callee, one sublevel up
MapReturned ==
  /\ heap # <<>>
  /\ last.k = "walk"
  /\ NewestTracer.recipe.k = "JaxprEqn"
  /\ NewestTracer.recipe.primitive = "map"
  /\ Len(last.heap) < Len(heap)
  /\ last.in_tracers # <<>>
  /\ last.heap[last.in_tracers[1].id].trace =
       JaxprTrace(NewestTracer.trace.level, NewestTracer.trace.sublevel + 1)

\* the i-th argument of the mapped call: the inputs of the equation after
\* the constant tracers
MapArg(i) ==
  heap[NewestTracer.recipe.invars[Len(NewestTracer.recipe.invars)
                                    - Len(last.in_tracers) + i].id]

\* every array of the abstraction has a leading axis
RECURSIVE HasAxis(_)
HasAxis(pv) ==
  IF pv = None THEN TRUE
  ELSE IF pv.k \in {"atuple", "jtt"} THEN \A i \in 1..Len(pv.e) : HasAxis(pv.e[i])
  ELSE pv.k \in {"shaped", "concrete"} /\ pv.sh # <<>>

\* red is orig without the leading axis of its arrays
RECURSIVE Stripped(_, _)
Stripped(red, orig) ==
  IF orig = None THEN red = None
  ELSE IF orig.k \in {"atuple", "jtt"}
  THEN /\ red.k = orig.k
       /\ Len(red.e) = Len(orig.e)
       /\ \A i \in 1..Len(orig.e) : Stripped(red.e[i], orig.e[i])
  ELSE red = ShapedArray(Tail(orig.sh))

\* out is red with a leading axis of n elements before the shape of
\* its arrays
RECURSIVE WithAxis(_, _, _)
WithAxis(n, red, out) ==
  IF red = None THEN out = None
  ELSE IF red.k \in {"atuple", "jtt"}
  THEN /\ out.k = red.k
       /\ Len(out.e) = Len(red.e)
       /\ \A i \in 1..Len(red.e) : WithAxis(n, red.e[i], out.e[i])
  ELSE out.k = "shaped" /\ out.sh = <<n>> \o red.sh

\* C13: when process_map returns from a callee mapped over a leading axis
\* of N elements, the callee was traced on the arguments' abstractions
\* without their leading axis (inside tuples too, a known argument staying
\* known), and the abstraction of the tracer it returns is the callee's
\* output abstraction with a leading axis of N elements put before each
\* shape, a known output staying known.
C13_MapAxis ==
  MapReturned =>
    /\ \A i \in 1..Len(last.in_tracers) :
         HasAxis(MapArg(i).pval.pv)
           => Stripped(last.heap[last.in_tracers[i].id].pval.pv, MapArg(i).pval.pv)
    /\ WithAxis(NewestTracer.recipe.params.axis_size,
                last.heap[last.out_tracer.id].pval.pv, NewestTracer.pval.pv)

\* a callee with one equation was mapped over an array of MaxAxis elements
C13_Witness ==
  /\ MapReturned
  /\ MapArg(1).pval.pv = ShapedArray(<<MaxAxis>>)
  /\ Len(last.jaxpr.eqns) = 1
  /\ last.heap[last.out_tracer.id].pval.pv = ShapedArray(<<>>)
  /\ NewestTracer.pval.pv = ShapedArray(<<MaxAxis>>)

\* C14: the equation process_map records embeds the callee's sub-program
\* as process_call does: the arguments of the call are its inputs, the
\* constants of the sub-program are bound to constant tracers of the
\* current trace (process_map passes them as leading inputs), and its free
\* variables are bound to tracers of the current trace, as full_raise makes.
C14_MapAsCall ==
  \A i \in 1..Len(heap) :
    (heap[i].recipe.k = "JaxprEqn" /\ heap[i].recipe.primitive \in {"call", "map"}) =>
      /\ \A t \in SeqRange(heap[i].recipe.invars) : heap[t.id].trace = heap[i].trace
      /\ \A b \in SeqRange(heap[i].recipe.bound_subjaxprs) :
           /\ \A c \in SeqRange(b.consts) :
                heap[c.id].trace = heap[i].trace /\ heap[c.id].recipe.k = "ConstVar"
           /\ \A f \in SeqRange(b.freevars) : heap[f.id].trace = heap[i].trace


(***************************************************************************)
(* The example f(x, y) = x * y + y (SpecExample): f is traced on two       *)
(* abstract inputs by trace_to_jaxpr and the program is replayed by        *)
(* eval_jaxpr_raw.                                                         *)
(***************************************************************************)
ExampleArgs == {Arr(v, <<>>) : v \in 0..MaxArg}

\* the abstractions an argument is traced under
ExampleAvals(x) == {ShapedArray(<<>>), ConcreteArray(x.v, <<>>)}

ExampleInit == EngineIdle /\ JoinIdle /\ MergeIdle /\ ApiIdle

\* trace_to_jaxpr(f, (PartialVal((aval_x, unit)), PartialVal((aval_y, unit))))
ExampleTrace(x, ax, y, ay) ==
  /\ frames = <<>>
  /\ result = NoResult
  /\ TraceToJaxpr(<<[pval |-> PartialVal(ax, unit), val |-> x],
                    [pval |-> PartialVal(ay, unit), val |-> y]>>)

\* the body of f: x * y
ExampleMul ==
  /\ frames # <<>>
  /\ Top.ops = 0
  /\ Bind("mul", Top.in_tracers[1], Top.in_tracers[2])

\* the body of f: (x * y) + y
ExampleAdd ==
  /\ frames # <<>>
  /\ Top.ops = 1
  /\ Bind("add", TracerRef(Len(heap)), Top.in_tracers[2])

\* f returns the sum
ExampleReturn ==
  /\ frames # <<>>
  /\ Top.ops = 2
  /\ TraceToJaxprReturn(TracerRef(Len(heap)))

\* eval_jaxpr_raw(jaxpr, consts, (), x, y)
ExampleReplay(x, y) ==
  /\ result.k = "trace_to_jaxpr"
  /\ result' = [k |-> "replay", jaxpr |-> result.jaxpr, args |-> <<x, y>>,
                ans |-> eval_jaxpr_raw(result.jaxpr, result.consts, <<>>, <<x, y>>)]
  /\ UNCHANGED <<joinVars, mergeVars, apiVars, trace_stack, frames, heap, exc, raised_at, last>>

ExampleNext ==
  \/ \E x \in ExampleArgs, y \in ExampleArgs :
       \E ax \in ExampleAvals(x), ay \in ExampleAvals(y) : ExampleTrace(x, ax, y, ay)
  \/ ExampleMul
  \/ ExampleAdd
  \/ ExampleReturn
  \/ \E x \in ExampleArgs, y \in ExampleArgs : ExampleReplay(x, y)

SpecExample == ExampleInit /\ [][ExampleNext]_vars

\* the program of f: two inputs, mul of the inputs, add of the product and
\* the second input, the sum as the output
IsMulAdd(jaxpr) ==
  /\ Len(jaxpr.invars) = 2
  /\ jaxpr.invars[1] # jaxpr.invars[2]
  /\ jaxpr.constvars = <<>>
  /\ jaxpr.freevars = <<>>
  /\ Len(jaxpr.eqns) = 2
  /\ jaxpr.eqns[1].primitive = "mul"
  /\ jaxpr.eqns[1].invars = jaxpr.invars
  /\ Len(jaxpr.eqns[1].outvars) = 1
  /\ jaxpr.eqns[1].outvars[1] \notin SeqRange(jaxpr.invars)
  /\ jaxpr.eqns[2].primitive = "add"
  /\ jaxpr.eqns[2].invars = <<jaxpr.eqns[1].outvars[1], jaxpr.invars[2]>>
  /\ jaxpr.eqns[2].outvars = <<jaxpr.outvar>>
  /\ jaxpr.outvar \notin SeqRange(jaxpr.invars) \cup {jaxpr.eqns[1].outvars[1]}

\* C17: tracing f(x, y) = x * y + y on two abstract inputs gives a program
\* with two inputs, the equations mul and add in that order, the add reading
\* the output variable of the mul, and one output variable; replayed on
\* arguments x, y the program returns x * y + y, and on 2, 3 it returns 9.
C17_Example ==
  /\ result.k = "trace_to_jaxpr" =>
       /\ IsMulAdd(result.jaxpr)
       /\ result.consts = <<>>
       /\ result.out_pval = PartialVal(ShapedArray(<<>>), unit)
  /\ result.k = "replay" =>
       /\ IsMulAdd(result.jaxpr)
       /\ result.ans = Arr(result.args[1].v * result.args[2].v + result.args[2].v, <<>>)
       /\ result.args = <<Arr(2, <<>>), Arr(3, <<>>)>> => result.ans = Arr(9, <<>>)

\* the program of f was replayed on 2, 3 and returned 9
C17_Witness ==
  /\ result.k = "replay"
  /\ result.args = <<Arr(2, <<>>), Arr(3, <<>>)>>
  /\ result.ans = Arr(9, <<>>)
  /\ Len(result.jaxpr.eqns) = 2

(***************************************************************************)
(* The api: grad and vmap of elementwise arithmetic functions              *)
(* (SpecCompose).  An array has a dtype, a shape, () or (n,), and its      *)
(* elements; floats are written as the integers they equal.                *)
(***************************************************************************)
NdArray(dtype, sh, data) == [k |-> "ndarray", dtype |-> dtype, sh |-> sh, data |-> data]

Scalar(dtype, v) == NdArray(dtype, <<>>, <<v>>)

\* the body of an elementwise arithmetic function of x
X == [k |-> "x"]

Lit(c) == [k |-> "lit", v |-> c]

Op(p, a, b) == [k |-> "op", p |-> p, a |-> a, b |-> b]

\* the body evaluated at one element
RECURSIVE expr_eval(_, _)
expr_eval(e, v) ==
  IF e.k = "x" THEN v
  ELSE IF e.k = "lit" THEN e.v
  ELSE IF e.p = "add" THEN expr_eval(e.a, v) + expr_eval(e.b, v)
  ELSE expr_eval(e.a, v) * expr_eval(e.b, v)

\* the differentiation rules of add and mul
RECURSIVE Diff(_)
Diff(e) ==
  IF e.k = "x" THEN Lit(1)
  ELSE IF e.k = "lit" THEN Lit(0)
  ELSE IF e.p = "add" THEN Op("add", Diff(e.a), Diff(e.b))
  ELSE Op("add", Op("mul", Diff(e.a), e.b), Op("mul", e.a, Diff(e.b)))

\* a Python function of one array, grad(fun) and vmap(fun)
PyFun(body) == [k |-> "fun", body |-> body]

Grad(fun) == [k |-> "grad", fun |-> fun]

Vmap(fun) == [k |-> "vmap", fun |-> fun]

\* what fun computes for one element
RECURSIVE scalar_body(_)
scalar_body(fun) ==
  IF fun.k = "fun" THEN fun.body
  ELSE IF fun.k = "grad" THEN Diff(scalar_body(fun.fun))
  ELSE scalar_body(fun.fun)

\* faulty variant of _check_scalar: every output passes
check_scalar_any(x) == None

\* _check_scalar(x): TypeError unless x is an array of shape ()
check_scalar(x) == IF x.k = "ndarray" /\ x.sh = <<>> THEN None ELSE TypeError

\* vjp_py(ct) of ad.vjp(fun, x): the cotangent times the derivative of fun
vjp_py(fun, x, ct) ==
  NdArray(x.dtype, x.sh,
          [i \in 1..Len(x.data) |-> ct * expr_eval(Diff(scalar_body(fun)), x.data[i])])

RECURSIVE api_call(_, _)
RECURSIVE value_and_grad_f(_, _)
RECURSIVE batched_fun(_, _)

\* value_and_grad(fun)(x): the pair, or the exception raised
value_and_grad_f(fun, x) ==
  LET grad_of(ans) ==
        IF IsErr(ans) THEN ans
        ELSE IF check_scalar(ans) # None THEN check_scalar(ans)
        ELSE IF ans.dtype # "float" THEN TypeError
        ELSE [k |-> "pair", ans |-> ans, g |-> vjp_py(fun, x, 1)]
  IN  grad_of(api_call(fun, x))

\* vmap(fun)(xs), batching.batch over the leading axis: fun traced once on
\* an element of the batch, the outputs stacked along a new leading axis
batched_fun(fun, xs) ==
  LET stack(outs) ==
        IF FirstErr(outs) # None THEN FirstErr(outs)
        ELSE NdArray(outs[1].dtype, <<Len(outs)>>, [i \in 1..Len(outs) |-> outs[i].data[1]])
  IN  IF xs.sh = <<>> THEN TypeError
      ELSE stack([i \in 1..Len(xs.data) |-> api_call(fun, Scalar(xs.dtype, xs.data[i]))])

\* fun(x)
api_call(fun, x) ==
  LET grad_f(r) == IF IsErr(r) THEN r ELSE r.g
  IN  IF fun.k = "fun"
      THEN NdArray(x.dtype, x.sh, [i \in 1..Len(x.data) |-> expr_eval(fun.body, x.data[i])])
      ELSE IF fun.k = "grad" THEN grad_f(value_and_grad_f(fun.fun, x))
      ELSE batched_fun(fun.fun, x)

\* x*x + c, c*x and x + x
ComposeFuns == {Op("add", Op("mul", X, X), Lit(c)) : c \in 0..MaxArg}
               \cup {Op("mul", Lit(c), X) : c \in 0..MaxArg}
               \cup {Op("add", X, X)}

Batches == UNION {[1..n -> 0..MaxArg] : n \in 1..MaxBatch}

ComposeInputs == {[f |-> f, xs |-> NdArray(d, <<Len(q)>>, q)] :
                    f \in ComposeFuns, d \in {"float", "int"}, q \in Batches}

NoOutcomes == [vg |-> NoResult, gv |-> NoResult]

ComposeInit == /\ api_in \in ComposeInputs
               /\ api_out = NoOutcomes
               /\ jit_cache = {} /\ body_runs = 0
               /\ EngineIdle /\ JoinIdle /\ MergeIdle

\* vmap(grad(f))(xs)
VmapOfGrad ==
  /\ api_out.vg = NoResult
  /\ api_out' = [api_out EXCEPT !.vg = api_call(Vmap(Grad(PyFun(api_in.f))), api_in.xs)]
  /\ UNCHANGED <<joinVars, mergeVars, engineVars, api_in, jit_cache, body_runs>>

\* grad(vmap(f))(xs)
GradOfVmap ==
  /\ api_out.gv = NoResult
  /\ api_out' = [api_out EXCEPT !.gv = api_call(Grad(Vmap(PyFun(api_in.f))), api_in.xs)]
  /\ UNCHANGED <<joinVars, mergeVars, engineVars, api_in, jit_cache, body_runs>>

ComposeNext == VmapOfGrad \/ GradOfVmap

SpecCompose == ComposeInit /\ [][ComposeNext]_vars

\* the derivative of a polynomial of degree at most two at v, by central
\* difference
CentralDiff(e, v) == (expr_eval(e, v + 1) - expr_eval(e, v - 1)) \div 2

SquarePlus3 == Op("add", Op("mul", X, X), Lit(3))

Batch123 == NdArray("float", <<3>>, <<1, 2, 3>>)

\* C18 as claimed: on a batch of floats vmap(grad(f)) and grad(vmap(f))
\* return the same per-element derivatives.
C18_OrdersAgree ==
  (api_in.xs.dtype = "float" /\ api_out.vg # NoResult /\ api_out.gv # NoResult) =>
     /\ ~IsErr(api_out.gv)
     /\ api_out.gv = api_out.vg

\* C18: on a batch of floats vmap(grad(f)) returns the derivative of f at
\* every element ([2, 4, 6] for f(x) = x*x + 3 on [1, 2, 3]), while
\* grad(vmap(f)) raises TypeError, the output of vmap(f) on a batch not being
\* a scalar; on a batch of integers both raise TypeError.
C18_Compose ==
  /\ api_out.vg # NoResult =>
       /\ api_in.xs.dtype = "float" =>
            api_out.vg = NdArray("float", api_in.xs.sh,
                                 [i \in 1..Len(api_in.xs.data) |->
                                    CentralDiff(api_in.f, api_in.xs.data[i])])
       /\ api_in.xs.dtype # "float" => api_out.vg = TypeError
       /\ (api_in.f = SquarePlus3 /\ api_in.xs = Batch123) => api_out.vg.data = <<2, 4, 6>>
  /\ api_out.gv # NoResult => api_out.gv = TypeError

\* both orders were applied to f(x) = x*x + 3 on [1, 2, 3]
C18_Witness ==
  /\ api_in = [f |-> SquarePlus3, xs |-> Batch123]
  /\ api_out.vg = NdArray("float", <<3>>, <<2, 4, 6>>)
  /\ api_out.gv = TypeError

(***************************************************************************)
(* The parallel primitives of lax_parallel (SpecParallel).                 *)
(***************************************************************************)
\* ShapedArray(shape, dtype), the abstraction of an array of the api
TypedShapedArray(sh, dtype) == [k |-> "shaped", sh |-> sh, dtype |-> dtype]

NameError(axis_name, primitive_name) ==
  [k |-> "error", exc |-> "NameError", axis_name |-> axis_name, primitive |-> primitive_name]

\* core.Primitive(name): no rule is defined yet
NoRule == [rule |-> "none"]

Primitive(name) == [name |-> name, impl |-> NoRule, abstract_eval |-> NoRule]

def_impl(prim, impl) == [prim EXCEPT !.impl = impl]

def_abstract_eval(prim, abstract_eval_rule) ==
  [prim EXCEPT !.abstract_eval = abstract_eval_rule]

\* partial(_unbound_name_error, primitive_name)
unbound_name_error(primitive_name) ==
  [rule |-> "_unbound_name_error", primitive_name |-> primitive_name]

\* lambda x, *args, **kwargs: x
FirstOperand == [rule |-> "lambda x, *args, **kwargs: x"]

\* lambda x, y, *args, **kwargs: ShapedArray(y.shape, x.dtype)
LikeSecond == [rule |-> "lambda x, y, *args, **kwargs: ShapedArray(y.shape, x.dtype)"]

\* faulty variant of PmapPrimitive: no impl is defined
PmapPrimitive_no_impl(name) == def_abstract_eval(Primitive(name), FirstOperand)

\* PmapPrimitive(name)
PmapPrimitive(name) ==
  def_abstract_eval(def_impl(Primitive(name), unbound_name_error(name)), FirstOperand)

\* the primitives once the module is loaded
psum_p ==
  def_abstract_eval(def_impl(PmapPrimitive("psum"), unbound_name_error("psum")), FirstOperand)

pmax_p ==
  def_abstract_eval(def_impl(PmapPrimitive("pmax"), unbound_name_error("pmax")), FirstOperand)

pswapaxes_p == PmapPrimitive("pswapaxes")

psplit_p == PmapPrimitive("psplit")

psplit_like_p == def_abstract_eval(PmapPrimitive("psplit_like"), LikeSecond)

pcollect_p == PmapPrimitive("pcollect")

ParallelPrimitives == {psum_p, pmax_p, pswapaxes_p, psplit_p, psplit_like_p, pcollect_p}

\* a rule of a primitive called on operands and keyword parameters
call_rule(rule, operands, params) ==
  IF rule.rule = "_unbound_name_error" THEN NameError(params.axis_name, rule.primitive_name)
  ELSE IF rule.rule = FirstOperand.rule THEN
    IF Len(operands) < 1 THEN TypeError ELSE operands[1]
  ELSE IF rule.rule = LikeSecond.rule THEN
    IF Len(operands) < 2 THEN TypeError
    ELSE TypedShapedArray(operands[2].sh, operands[1].dtype)
  ELSE NotImplementedError

\* prim.bind(*operands, **params) on arrays, no tracer among them: prim.impl
prim_bind(prim, operands, params) == call_rule(prim.impl, operands, params)

\* prim.abstract_eval(*avals, **params)
prim_abstract_eval(prim, avals, params) == call_rule(prim.abstract_eval, avals, params)

\* the abstraction of an array
array_aval(x) == TypedShapedArray(x.sh, x.dtype)

AxisNames == {"i", "j"}

ParallelArrays ==
  {NdArray(d, sh, [i \in 1..(IF sh = <<>> THEN 1 ELSE sh[1]) |-> 0]) :
     d \in {"float", "int"}, sh \in {<<>>} \cup {<<n>> : n \in 1..MaxAxis}}

\* the operands the wrappers psum, pmax, pswapaxes, psplit, psplit_like and
\* pcollect pass to bind
ParallelOperands(prim) ==
  IF prim.name = "psplit_like" THEN {<<x, y>> : x \in ParallelArrays, y \in ParallelArrays}
  ELSE {<<x>> : x \in ParallelArrays}

ParallelParams(prim) ==
  IF prim.name \in {"pswapaxes", "psplit"}
  THEN {[axis_name |-> a, axis |-> 0] : a \in AxisNames}
  ELSE {[axis_name |-> a] : a \in AxisNames}

NoParallel == [impl |-> NoResult, abstract |-> NoResult, default |-> NoResult]

ParallelInit ==
  /\ \E prim \in ParallelPrimitives :
       \E operands \in ParallelOperands(prim), params \in ParallelParams(prim) :
         api_in = [prim |-> prim, operands |-> operands, params |-> params]
  /\ api_out = NoParallel
  /\ jit_cache = {} /\ body_runs = 0
  /\ EngineIdle /\ JoinIdle /\ MergeIdle

InAvals == [i \in 1..Len(api_in.operands) |-> array_aval(api_in.operands[i])]

\* the primitive is bound to arrays outside of every transformation
ParallelBind ==
  /\ api_out.impl = NoResult
  /\ api_out' = [api_out EXCEPT !.impl = prim_bind(api_in.prim, api_in.operands, api_in.params)]
  /\ UNCHANGED <<joinVars, mergeVars, engineVars, api_in, jit_cache, body_runs>>

\* the abstract evaluation rule of the primitive
ParallelAbstractEval ==
  /\ api_out.abstract = NoResult
  /\ api_out' = [api_out EXCEPT
                   !.abstract = prim_abstract_eval(api_in.prim, InAvals, api_in.params)]
  /\ UNCHANGED <<joinVars, mergeVars, engineVars, api_in, jit_cache, body_runs>>

\* the abstract evaluation rule of the primitive as PmapPrimitive returns it
ParallelDefaultAbstractEval ==
  /\ api_out.default = NoResult
  /\ api_out' = [api_out EXCEPT
                   !.default = prim_abstract_eval(PmapPrimitive(api_in.prim.name), InAvals,
                                                  api_in.params)]
  /\ UNCHANGED <<joinVars, mergeVars, engineVars, api_in, jit_cache, body_runs>>

ParallelNext == ParallelBind \/ ParallelAbstractEval \/ ParallelDefaultAbstractEval

SpecParallel == ParallelInit /\ [][ParallelNext]_vars

\* C19: each of psum, pmax, pswapaxes, psplit, psplit_like and pcollect,
\* bound to arrays with no transformation binding its axis name, raises
\* NameError carrying the axis name and the name of the primitive and
\* returns no value; the abstract evaluation rule PmapPrimitive gives the
\* primitive returns the abstraction of the first operand unchanged, and it
\* is the rule in force for every primitive but psplit_like, whose rule is
\* redefined to return the shape of the second operand with the dtype of
\* the first.
C19_Unbound ==
  /\ api_in.prim.name \in {"psum", "pmax", "pswapaxes", "psplit", "psplit_like", "pcollect"}
  /\ api_out.impl # NoResult =>
       api_out.impl = [k |-> "error", exc |-> "NameError",
                       axis_name |-> api_in.params.axis_name,
                       primitive |-> api_in.prim.name]
  /\ api_out.default # NoResult =>
       api_out.default = [k |-> "shaped", sh |-> api_in.operands[1].sh,
                          dtype |-> api_in.operands[1].dtype]
  /\ (api_out.abstract # NoResult /\ api_in.prim.name # "psplit_like") =>
       api_out.abstract = [k |-> "shaped", sh |-> api_in.operands[1].sh,
                           dtype |-> api_in.operands[1].dtype]
  /\ (api_out.abstract # NoResult /\ api_in.prim.name = "psplit_like") =>
       api_out.abstract = [k |-> "shaped", sh |-> api_in.operands[2].sh,
                           dtype |-> api_in.operands[1].dtype]

\* pswapaxes was bound to a vector under the unbound axis name "i" and
\* evaluated abstractly
C19_Witness ==
  /\ api_in.prim.name = "pswapaxes"
  /\ api_in.params.axis_name = "i"
  /\ api_in.operands[1].sh = <<MaxAxis>>
  /\ api_out.impl = NameError("i", "pswapaxes")
  /\ api_out.default = TypedShapedArray(<<MaxAxis>>, api_in.operands[1].dtype)
  /\ api_out.abstract = api_out.default

(***************************************************************************)
(* The api: jit (SpecJit).  A jit-wrapped function of one argument is      *)
(* called again and again, inside or outside of a disable_jit() block.     *)
(***************************************************************************)
\* an argument that is no array
NotAnArray == [k |-> "str"]

\* _check_args(args)
check_args(x) == IF x.k = "ndarray" THEN None ELSE TypeError

\* fun(x): the Python body runs on the argument
run_body(fun, x) == IF x.k # "ndarray" THEN TypeError ELSE api_call(PyFun(fun), x)

\* the shape and dtype an argument is compiled for
signature(x) == TypedShapedArray(x.sh, x.dtype)

\* the compiled program runs on an argument of the signature it was
\* compiled for
execute(compiled, x) ==
  IF signature(x) # compiled.sig THEN TypeError
  ELSE NdArray(x.dtype, x.sh, [i \in 1..Len(x.data) |-> expr_eval(compiled.program, x.data[i])])

\* xla.xla_call(fun, x): fun is traced and compiled when no program is cached
\* for the signature of x, then the program is run
xla_call(fun, cache, x) ==
  IF \E c \in cache : c.sig = signature(x)
  THEN [out |-> execute(CHOOSE c \in cache : c.sig = signature(x), x),
        cache |-> cache, ran |-> FALSE]
  ELSE [out |-> execute([sig |-> signature(x), program |-> fun], x),
        cache |-> cache \cup {[sig |-> signature(x), program |-> fun]}, ran |-> TRUE]

\* faulty variant of f_jitted: disable_jit is ignored
f_jitted_never_disabled(fun, disabled, cache, x) ==
  IF check_args(x) # None THEN [out |-> check_args(x), cache |-> cache, ran |-> FALSE]
  ELSE xla_call(fun, cache, x)

\* jit(fun)(x): the outcome, the cache afterwards and whether the body ran
f_jitted(fun, disabled, cache, x) ==
  IF disabled THEN [out |-> run_body(fun, x), cache |-> cache, ran |-> TRUE]
  ELSE IF check_args(x) # None THEN [out |-> check_args(x), cache |-> cache, ran |-> FALSE]
  ELSE xla_call(fun, cache, x)

JitFuns == {Op("add", Op("mul", X, X), Lit(MaxVal)), Op("add", X, X)}

JitArgs == {NdArray(d, sh, <<v>>) : d \in {"float", "int"}, sh \in {<<>>, <<1>>}, v \in 0..MaxVal}
           \cup {NotAnArray}

\* the calls made so far: their number n, the last argument x and the one
\* before (prev), the outcome, whether the body ran, whether jit was
\* disabled, and the signatures of the earlier calls, all of them (called)
\* and those made while jit was not disabled (staged)
NoCalls == [n |-> 0, x |-> None, prev |-> None, out |-> NoResult, ran |-> FALSE,
            disabled |-> FALSE, called |-> {}, staged |-> {},
            called_before |-> {}, staged_before |-> {}]

JitInit == /\ api_in \in {[f |-> f, disabled |-> FALSE] : f \in JitFuns}
           /\ api_out = NoCalls
           /\ jit_cache = {} /\ body_runs = 0
           /\ EngineIdle /\ JoinIdle /\ MergeIdle

\* the jit-wrapped function is called on x
JitCall(x) ==
  /\ api_out.n < MaxCalls
  /\ LET sigs == IF x.k = "ndarray" THEN {signature(x)} ELSE {}
         done(r) ==
           /\ jit_cache' = r.cache
           /\ body_runs' = body_runs + (IF r.ran THEN 1 ELSE 0)
           /\ api_out' = [n |-> api_out.n + 1, x |-> x, prev |-> api_out.x, out |-> r.out,
                          ran |-> r.ran, disabled |-> api_in.disabled,
                          called |-> api_out.called \cup sigs,
                          staged |-> IF api_in.disabled THEN api_out.staged
                                     ELSE api_out.staged \cup sigs,
                          called_before |-> api_out.called,
                          staged_before |-> api_out.staged]
     IN  done(f_jitted(api_in.f, api_in.disabled, jit_cache, x))
  /\ UNCHANGED <<joinVars, mergeVars, engineVars, api_in>>

\* a disable_jit() block is entered or left
DisableJit ==
  /\ api_out.n < MaxCalls
  /\ api_in' = [api_in EXCEPT !.disabled = ~@]
  /\ UNCHANGED <<joinVars, mergeVars, engineVars, api_out, jit_cache, body_runs>>

JitNext == (\E x \in JitArgs : JitCall(x)) \/ DisableJit

SpecJit == JitInit /\ [][JitNext]_vars

\* the last call was made on an array
CalledOnArray == api_out.n > 0 /\ api_out.x.k = "ndarray"

CondLeaves ==
  {[out |-> PartialVal(None, Arr(v, <<>>)), val |-> Arr(v, <<>>)] : v \in 0..MaxVal}
  \cup {[out |-> PartialVal(ShapedArray(<<>>), unit), val |-> Arr(v, <<>>)] : v \in 0..MaxVal}

BranchOf(leaves) ==
  [out |-> pack_pvals([i \in 1..Len(leaves) |-> leaves[i].out]),
   val |-> pack([i \in 1..Len(leaves) |-> leaves[i].val])]

CondBranches ==
  CondLeaves \cup {BranchOf(<<a>>) : a \in CondLeaves}
             \cup {BranchOf(<<a, b>>) : a \in CondLeaves, b \in CondLeaves}

\* the tree structure of an output
out_tree(val) == IF val.k = "tup" THEN Len(val.e) ELSE 0

\* what the program of a branch, revised for the joined partial value,
\* returns: the output of the branch where the joined value is not known
RECURSIVE revised_out(_, _)
revised_out(pv, val) ==
  IF pv = None THEN unit
  ELSE IF IsJaxprTracerTuple(pv)
  THEN JaxTuple([i \in 1..Len(pv.e) |-> revised_out(pv.e[i], val.e[i])])
  ELSE val

\* cond(pred, operand, true_fun, operand, false_fun)
cond(pred, true, false) ==
  LET selected == IF pred THEN true ELSE false
      merged(joined_pval) ==
        IF IsErr(joined_pval) THEN joined_pval
        ELSE merge_pvals(revised_out(joined_pval.pv, selected.val), joined_pval)
  IN  IF out_tree(true.val) # out_tree(false.val) THEN TypeError
      ELSE merged(join_pvals(true.out, false.out))

CondInit ==
  /\ api_in \in {[pred |-> p, true |-> t, false |-> f] :
                   p \in BOOLEAN, t \in CondBranches, f \in CondBranches}
  /\ api_out = NoResult
  /\ jit_cache = {} /\ body_runs = 0
  /\ EngineIdle /\ JoinIdle /\ MergeIdle

Cond ==
  /\ api_out = NoResult
  /\ api_out' = [k |-> "cond", out |-> cond(api_in.pred, api_in.true, api_in.false),
                 joined |-> join_pvals(api_in.true.out, api_in.false.out)]
  /\ UNCHANGED <<joinVars, mergeVars, engineVars, api_in, jit_cache, body_runs>>

CondNext == Cond

SpecCond == CondInit /\ [][CondNext]_vars

\* the parts of a partial value that are known
RECURSIVE HasKnown(_)
HasKnown(pval) ==
  \/ pval.pv = None
  \/ IsJaxprTracerTuple(pval.pv) /\ \E i \in 1..Len(pval.pv.e) : pval.pv.e[i] = None

RECURSIVE Positions(_)
Positions(sh) ==
  IF sh = <<>> THEN {<<>>}
  ELSE {<<c>> \o rest : c \in 0..(Head(sh) - 1), rest \in Positions(Tail(sh))}

Array(sh, d) == [k |-> "array", sh |-> sh, d |-> d]

RECURSIVE Product(_)
Product(q) == IF q = <<>> THEN 1 ELSE Head(q) * Product(Tail(q))

\* the elements of a basic index: None, an integer, a slice, Ellipsis
IntIndex(i) == [k |-> "int", i |-> i]

Slice(start, stop, step) == [k |-> "slice", start |-> start, stop |-> stop, step |-> step]

Ellipsis == [k |-> "ellipsis"]

IndexError == [k |-> "error", exc |-> "IndexError"]

ValueError == [k |-> "error", exc |-> "ValueError"]

\* Python's slice.indices(size): start, stop and step as integers; the
\* fields of a slice are None or IntIndex(i)
slice_indices(sl, size) ==
  LET step == IF sl.step = None THEN 1 ELSE sl.step.i
      lower == IF step < 0 THEN 0 - 1 ELSE 0
      upper == IF step < 0 THEN size - 1 ELSE size
      clamp(v) == IF v < 0 THEN (IF v + size < lower THEN lower ELSE v + size)
                  ELSE IF v > upper THEN upper ELSE v
  IN  [start |-> IF sl.start = None THEN (IF step < 0 THEN upper ELSE lower)
                 ELSE clamp(sl.start.i),
       stop |-> IF sl.stop = None THEN (IF step < 0 THEN lower ELSE upper)
                ELSE clamp(sl.stop.i),
       step |-> step]

\* np._static_idx(idx, size): start, limit, stride, needs_rev
static_idx(sl, size) ==
  LET ix == slice_indices(sl, size)
      k == (ix.start - ix.stop - 1) % (0 - ix.step)
  IN  IF (ix.step < 0 /\ ix.stop >= ix.start) \/ (ix.step > 0 /\ ix.start >= ix.stop)
      THEN [start |-> 0, limit |-> 0, stride |-> 1, needs_rev |-> FALSE]
      ELSE IF ix.step > 0
      THEN [start |-> ix.start, limit |-> ix.stop, stride |-> ix.step, needs_rev |-> FALSE]
      ELSE [start |-> ix.stop + k + 1, limit |-> ix.start + 1, stride |-> 0 - ix.step,
            needs_rev |-> TRUE]

\* np.arange(start, limit, stride)
arange(start, limit, stride) ==
  IF limit <= start THEN <<>>
  ELSE [j \in 1..(((limit - start - 1) \div stride) + 1) |-> start + (j - 1) * stride]

\* np._is_slice_none(i)
is_slice_none(i) == i.k = "slice" /\ i.start = None /\ i.stop = None /\ i.step = None

\* np._canonicalize_tuple_index(x, idx): Ellipsis is replaced and trailing
\* full slices are added
canonicalize_tuple_index(ndim, idx) ==
  LET counted == {j \in 1..Len(idx) : idx[j] # None /\ idx[j] # Ellipsis}
      len_without_none == Cardinality(counted)
      ellipses == {j \in 1..Len(idx) : idx[j] = Ellipsis}
      colons == [j \in 1..(ndim - len_without_none) |-> Slice(None, None, None)]
      ellipsis_index == CHOOSE j \in ellipses : \A l \in ellipses : j <= l
  IN  IF len_without_none > ndim THEN IndexError
      ELSE IF Cardinality(ellipses) > 1 THEN IndexError
      ELSE IF ellipses # {}
      THEN PyList(SubSeq(idx, 1, ellipsis_index - 1) \o colons
                  \o SubSeq(idx, ellipsis_index + 1, Len(idx)))
      ELSE PyList(idx \o colons)

\* the locals of the index loop of _scatter_update; scatter_indices is kept
\* as its batch shape (all axes but the last) and, for every batch position,
\* the index vector along the last axis
ScatterLoop0 ==
  [x_axis |-> 0, y_axis |-> 0, collapsed_y_axis |-> 0,
   update_window_dims |-> <<>>, inserted_window_dims |-> <<>>,
   scatter_dims_to_operand_dims |-> <<>>,
   scatter_indices |-> [bsh |-> <<>>, d |-> [b \in {<<>>} |-> <<>>]],
   slice_shape |-> <<>>, collapsed_slice_shape |-> <<>>, reversed_y_dims |-> <<>>,
   err |-> None]

\* np.concatenate((scatter_indices, broadcast_to(i, batch + (1,))), -1)
append_index(si, i) == [bsh |-> si.bsh, d |-> [b \in Positions(si.bsh) |-> Append(si.d[b], i)]]

\* lines 123-134: a new batch axis holding the indices ar
append_indices(si, ar) ==
  [bsh |-> Append(si.bsh, Len(ar)),
   d |-> [b \in Positions(Append(si.bsh, Len(ar))) |->
            Append(si.d[SubSeq(b, 1, Len(si.bsh))], ar[b[Len(b)] + 1])]]

\* faulty variant of the loop body: an integer index does not insert a
\* window dimension
scatter_step_int_kept(st, x_shape, i) ==
  IF i.k = "int"
  THEN [st EXCEPT !.scatter_indices = append_index(@, i.i % x_shape[st.x_axis + 1]),
                  !.scatter_dims_to_operand_dims = Append(@, st.x_axis),
                  !.x_axis = @ + 1]
  ELSE [st EXCEPT !.err = IndexError]

\* one iteration of the loop over idx (lines 82-142)
scatter_step(st, x_shape, i) ==
  LET slice_step(r) ==
        LET rev == IF r.needs_rev
                   THEN [st EXCEPT !.reversed_y_dims = Append(@, st.collapsed_y_axis)]
                   ELSE st
            strided(ar) ==
              [rev EXCEPT !.slice_shape = Append(@, Len(ar)),
                          !.collapsed_slice_shape = Append(@, Len(ar)),
                          !.scatter_indices = append_indices(@, ar),
                          !.scatter_dims_to_operand_dims = Append(@, st.x_axis),
                          !.inserted_window_dims = Append(@, st.x_axis),
                          !.collapsed_y_axis = @ + 1, !.y_axis = @ + 1, !.x_axis = @ + 1]
        IN  IF r.stride = 1
            THEN [rev EXCEPT !.scatter_indices = append_index(@, r.start),
                             !.slice_shape = Append(@, r.limit - r.start),
                             !.collapsed_slice_shape = Append(@, r.limit - r.start),
                             !.update_window_dims = Append(@, st.collapsed_y_axis),
                             !.scatter_dims_to_operand_dims = Append(@, st.x_axis),
                             !.collapsed_y_axis = @ + 1, !.y_axis = @ + 1, !.x_axis = @ + 1]
            ELSE strided(arange(r.start, r.limit, r.stride))
  IN  IF i.k = "int"
      THEN [st EXCEPT !.scatter_indices = append_index(@, i.i % x_shape[st.x_axis + 1]),
                      !.inserted_window_dims = Append(@, st.x_axis),
                      !.scatter_dims_to_operand_dims = Append(@, st.x_axis),
                      !.x_axis = @ + 1]
      ELSE IF i = None
      THEN [st EXCEPT !.slice_shape = Append(@, 1), !.y_axis = @ + 1]
      ELSE IF is_slice_none(i)
      THEN [st EXCEPT !.slice_shape = Append(@, x_shape[st.x_axis + 1]),
                      !.collapsed_slice_shape = Append(@, x_shape[st.x_axis + 1]),
                      !.update_window_dims = Append(@, st.collapsed_y_axis),
                      !.collapsed_y_axis = @ + 1, !.y_axis = @ + 1, !.x_axis = @ + 1]
      ELSE IF i.k = "slice" THEN slice_step(static_idx(i, x_shape[st.x_axis + 1]))
      ELSE [st EXCEPT !.err = IndexError]

RECURSIVE scatter_loop(_, _, _)
scatter_loop(st, x_shape, idx) ==
  IF idx = <<>> \/ st.err # None THEN st
  ELSE scatter_loop(scatter_step(st, x_shape, Head(idx)), x_shape, Tail(idx))

\* row-major linear index of a position, and the position of a linear index
RECURSIVE Lin(_, _)
Lin(sh, pos) == IF sh = <<>> THEN 0 ELSE Lin(Front(sh), Front(pos)) * Last(sh) + Last(pos)

Unlin(sh, n) == CHOOSE pos \in Positions(sh) : Lin(sh, pos) = n

RECURSIVE Ascending(_)
Ascending(S) ==
  IF S = {} THEN <<>>
  ELSE LET m == CHOOSE a \in S : \A b \in S : a <= b
       IN  <<m>> \o Ascending(S \ {m})

IndexOf(q, v) == CHOOSE j \in 1..Len(q) : q[j] = v

RECURSIVE SumOver(_, _)
SumOver(f, S) ==
  IF S = {} THEN 0
  ELSE LET a == CHOOSE b \in S : TRUE IN f[a] + SumOver(f, S \ {a})

\* np.broadcast_to(y, shape): axes are aligned from the right and an axis of
\* one element is repeated
broadcast_to(y, sh) ==
  LET off == Len(sh) - Len(y.sh)
  IN  IF off < 0 \/ \E j \in 1..Len(y.sh) : y.sh[j] # 1 /\ y.sh[j] # sh[j + off]
      THEN ValueError
      ELSE Array(sh, [pos \in Positions(sh) |->
                        y.d[[j \in 1..Len(y.sh) |-> IF y.sh[j] = 1 THEN 0 ELSE pos[j + off]]]])

\* lax.reshape(y, shape): the elements keep their row-major order
reshape(y, sh) ==
  IF Product(sh) # Product(y.sh) THEN TypeError
  ELSE Array(sh, [pos \in Positions(sh) |-> y.d[Unlin(y.sh, Lin(sh, pos))]])

\* lax.rev(y, dimensions)
rev(y, dims) ==
  Array(y.sh, [pos \in Positions(y.sh) |->
                 y.d[[j \in 1..Len(pos) |-> IF (j - 1) \in SeqRange(dims)
                                            THEN y.sh[j] - 1 - pos[j] ELSE pos[j]]]])

ScatterDimensionNumbers(st) ==
  [update_window_dims |-> st.update_window_dims,
   inserted_window_dims |-> st.inserted_window_dims,
   scatter_dims_to_operand_dims |-> st.scatter_dims_to_operand_dims]

\* XLA's scatter.  Every position u of the updates splits into a window
\* index (its update_window_dims) and a batch index (the other axes); the
\* batch index selects a start vector in scatter_indices, which
\* scatter_dims_to_operand_dims spreads over the operand's axes; the window
\* index is spread over the operand axes that are not inserted_window_dims.
\* A window that does not fit in the operand is skipped.  The operand's
\* element at start + window is combined with the update.
scatter_target(operand, si, updates, dnums, u) ==
  LET uw == dnums.update_window_dims
      sd == Ascending((0..(Len(updates.sh) - 1)) \ SeqRange(uw))
      wd == Ascending((0..(Len(operand.sh) - 1)) \ SeqRange(dnums.inserted_window_dims))
      sdo == dnums.scatter_dims_to_operand_dims
      start == si.d[[j \in 1..Len(sd) |-> u[sd[j] + 1]]]
      start_of(d) == IF d \in SeqRange(sdo) THEN start[IndexOf(sdo, d)] ELSE 0
      size_of(d) == IF d \in SeqRange(wd) THEN updates.sh[uw[IndexOf(wd, d)] + 1] ELSE 1
      window_of(d) == IF d \in SeqRange(wd) THEN u[uw[IndexOf(wd, d)] + 1] ELSE 0
  IN  [fits |-> \A d \in 0..(Len(operand.sh) - 1) :
                  start_of(d) >= 0 /\ start_of(d) + size_of(d) <= operand.sh[d + 1],
       pos |-> [j \in 1..Len(operand.sh) |-> start_of(j - 1) + window_of(j - 1)]]

\* the target of every position of the updates
scatter_targets(operand, si, updates, dnums) ==
  [u \in Positions(updates.sh) |-> scatter_target(operand, si, updates, dnums, u)]

scatter_hits(targets, pos) ==
  {u \in DOMAIN targets : targets[u].fits /\ targets[u].pos = pos}

scatter_valid(operand, si, updates, dnums) ==
  /\ Len(dnums.update_window_dims) + Len(dnums.inserted_window_dims) = Len(operand.sh)
  /\ Len(dnums.scatter_dims_to_operand_dims) <= Len(operand.sh)
  /\ Len(updates.sh) = Len(si.bsh) + Len(dnums.update_window_dims)

\* lax.scatter_add: every update that lands on a position is added to it
scatter_add(operand, si, updates, dnums) ==
  LET apply(targets) ==
        Array(operand.sh,
              [pos \in Positions(operand.sh) |->
                 operand.d[pos] + SumOver(updates.d, scatter_hits(targets, pos))])
  IN  IF ~scatter_valid(operand, si, updates, dnums) THEN TypeError
      ELSE apply(scatter_targets(operand, si, updates, dnums))

\* lax.scatter: an update that lands on a position replaces it
scatter(operand, si, updates, dnums) ==
  LET put(pos, hits) == IF hits = {} THEN operand.d[pos]
                        ELSE updates.d[CHOOSE u \in hits : TRUE]
      apply(targets) ==
        Array(operand.sh,
              [pos \in Positions(operand.sh) |-> put(pos, scatter_hits(targets, pos))])
  IN  IF ~scatter_valid(operand, si, updates, dnums) THEN TypeError
      ELSE apply(scatter_targets(operand, si, updates, dnums))

PyTuple(xs) == [k |-> "tuple", e |-> xs]

\* faulty variant: the negative-stride axes of y are not reversed
transform_y_forward(y, st) ==
  LET collapse(brd) == IF brd.k = "error" THEN brd ELSE reshape(brd, st.collapsed_slice_shape)
  IN  collapse(broadcast_to(y, st.slice_shape))

\* the three transformations of y before the scatter (lines 144-147)
transform_y(y, st) ==
  LET reverse(rsh) == IF rsh.k = "error" \/ st.reversed_y_dims = <<>> THEN rsh
                      ELSE rev(rsh, st.reversed_y_dims)
      collapse(brd) == IF brd.k = "error" THEN brd
                       ELSE reverse(reshape(brd, st.collapsed_slice_shape))
  IN  collapse(broadcast_to(y, st.slice_shape))

\* _scatter_update(x, idx, y, scatter_op), with the locals the loop ended
\* with; op is "add" for lax.scatter_add and "update" for lax.scatter
scatter_update(x, idx, y, op) ==
  LET tup == IF idx.k = "tuple" THEN idx.e ELSE <<idx>>
      run(st) ==
        LET finish(yy) ==
              [out |-> IF yy.k = "error" THEN yy
                       ELSE IF op = "add"
                       THEN scatter_add(x, st.scatter_indices, yy, ScatterDimensionNumbers(st))
                       ELSE scatter(x, st.scatter_indices, yy, ScatterDimensionNumbers(st)),
               st |-> st, updates |-> yy]
        IN  IF st.err # None THEN [out |-> st.err, st |-> st, updates |-> None]
            ELSE finish(transform_y(y, st))
      loop(canon) ==
        IF canon.k = "error" THEN [out |-> canon, st |-> None, updates |-> None]
        ELSE run(scatter_loop(ScatterLoop0, x.sh, canon.e))
  IN  loop(canonicalize_tuple_index(Len(x.sh), tup))

index_add(x, idx, y) == scatter_update(x, idx, y, "add")

index_update(x, idx, y) == scatter_update(x, idx, y, "update")

\* ---- what numpy's x[idx] op= y does, from the meaning of basic indexing ----
\* len(range(start, stop, step))
RangeLen(ix) ==
  IF ix.step > 0
  THEN (IF ix.stop > ix.start THEN ((ix.stop - ix.start - 1) \div ix.step) + 1 ELSE 0)
  ELSE (IF ix.start > ix.stop THEN ((ix.start - ix.stop - 1) \div (0 - ix.step)) + 1 ELSE 0)

\* every integer of the index lies within its axis
RECURSIVE RegionValid(_, _)
RegionValid(x_shape, idx) ==
  IF idx = <<>> THEN TRUE
  ELSE IF Head(idx) = None THEN RegionValid(x_shape, Tail(idx))
  ELSE /\ Head(idx).k = "int" =>
            (0 - Head(x_shape)) <= Head(idx).i /\ Head(idx).i < Head(x_shape)
       /\ RegionValid(Tail(x_shape), Tail(idx))

\* the shape of x[idx]
RECURSIVE RegionShape(_, _)
RegionShape(x_shape, idx) ==
  IF idx = <<>> THEN <<>>
  ELSE IF Head(idx) = None THEN <<1>> \o RegionShape(x_shape, Tail(idx))
  ELSE IF Head(idx).k = "int" THEN RegionShape(Tail(x_shape), Tail(idx))
  ELSE <<RangeLen(slice_indices(Head(idx), Head(x_shape)))>>
         \o RegionShape(Tail(x_shape), Tail(idx))

\* the position of x that the element r of x[idx] refers to
RECURSIVE RegionPos(_, _, _)
RegionPos(x_shape, idx, r) ==
  IF idx = <<>> THEN <<>>
  ELSE IF Head(idx) = None THEN RegionPos(x_shape, Tail(idx), Tail(r))
  ELSE IF Head(idx).k = "int"
  THEN <<IF Head(idx).i < 0 THEN Head(idx).i + Head(x_shape) ELSE Head(idx).i>>
         \o RegionPos(Tail(x_shape), Tail(idx), r)
  ELSE LET ix == slice_indices(Head(idx), Head(x_shape))
       IN  <<ix.start + Head(r) * ix.step>> \o RegionPos(Tail(x_shape), Tail(idx), Tail(r))

Canonical(x, idx) ==
  canonicalize_tuple_index(Len(x.sh), IF idx.k = "tuple" THEN idx.e ELSE <<idx>>)

\* idx is a basic index of x and y is broadcastable to x[idx]
Indexable(x, idx, y) ==
  /\ Canonical(x, idx).k # "error"
  /\ RegionValid(x.sh, Canonical(x, idx).e)
  /\ broadcast_to(y, RegionShape(x.sh, Canonical(x, idx).e)).k # "error"

\* the array after x[idx] op= y
Updated(x, idx, y, op) ==
  LET canon == Canonical(x, idx).e
      region == RegionShape(x.sh, canon)
      yb == broadcast_to(y, region)
      sel(pos) == {r \in Positions(region) : RegionPos(x.sh, canon, r) = pos}
      at(pos, rs) == IF rs = {} THEN x.d[pos]
                     ELSE IF op = "add" THEN x.d[pos] + yb.d[CHOOSE r \in rs : TRUE]
                     ELSE yb.d[CHOOSE r \in rs : TRUE]
  IN  Array(x.sh, [pos \in Positions(x.sh) |-> at(pos, sel(pos))])

\* ---- the inputs ----
ScatterShapes == {<<n>> : n \in 2..MaxDim} \cup {<<n, m>> : n \in 2..MaxDim, m \in 2..MaxDim}

\* the elements of x are told apart, and so are those of y and their sums
XArray(sh) == Array(sh, [pos \in Positions(sh) |-> 100 * (Lin(sh, pos) + 1)])

YArray(sh) == Array(sh, [pos \in Positions(sh) |-> Lin(sh, pos) + 1])

SliceStarts == {None, IntIndex(1), IntIndex(0 - 1)}

SliceStops == {None, IntIndex(0), IntIndex(2), IntIndex(0 - 1)}

SliceSteps == {None, IntIndex(2), IntIndex(0 - 1), IntIndex(0 - 2)}

IndexElements ==
  {None, Ellipsis} \cup {IntIndex(i) : i \in (0 - 1)..(MaxDim - 1)}
    \cup {Slice(a, b, c) : a \in SliceStarts, b \in SliceStops, c \in SliceSteps}

Indexes ==
  IndexElements \cup {PyTuple(<<a>>) : a \in IndexElements}
    \cup {PyTuple(<<a, b>>) : a \in IndexElements, b \in IndexElements}

\* the updates tried for x[idx]: a scalar, an array of the region's shape and
\* an array of the shape of its last axis
YShapes(x, idx) ==
  LET region == RegionShape(x.sh, Canonical(x, idx).e)
  IN  IF Canonical(x, idx).k = "error" THEN {<<>>}
      ELSE {<<>>, region} \cup (IF region = <<>> THEN {} ELSE {<<Last(region)>>})

ScatterInit ==
  /\ \E sh \in ScatterShapes, idx \in Indexes, op \in {"add", "update"} :
       \E ysh \in YShapes(XArray(sh), idx) :
         api_in = [x |-> XArray(sh), idx |-> idx, y |-> YArray(ysh), op |-> op]
  /\ api_out = NoResult
  /\ jit_cache = {} /\ body_runs = 0
  /\ EngineIdle /\ JoinIdle /\ MergeIdle

ScatterDone(r) == [k |-> "scatter", out |-> r.out, st |-> r.st, updates |-> r.updates]

IndexAdd ==
  /\ api_out = NoResult /\ api_in.op = "add"
  /\ api_out' = ScatterDone(index_add(api_in.x, api_in.idx, api_in.y))
  /\ UNCHANGED <<joinVars, mergeVars, engineVars, api_in, jit_cache, body_runs>>

IndexUpdate ==
  /\ api_out = NoResult /\ api_in.op = "update"
  /\ api_out' = ScatterDone(index_update(api_in.x, api_in.idx, api_in.y))
  /\ UNCHANGED <<joinVars, mergeVars, engineVars, api_in, jit_cache, body_runs>>

ScatterNext == IndexAdd \/ IndexUpdate

SpecScatter == ScatterInit /\ [][ScatterNext]_vars

Scattered == api_out.k = "scatter"

\* C22: for a basic index idx of x and an update y broadcastable to x[idx],
\* index_add and index_update return an array that equals x outside the
\* region selected by idx and x + y (index_add) or y (index_update), broadcast
\* to the region, inside it; x itself is as it was.
C22_IndexedUpdate ==
  (Scattered /\ Indexable(api_in.x, api_in.idx, api_in.y)) =>
     /\ api_out.out = Updated(api_in.x, api_in.idx, api_in.y, api_in.op)
     /\ api_in.x = XArray(api_in.x.sh)

C22_Witness ==
  /\ Scattered /\ Indexable(api_in.x, api_in.idx, api_in.y)
  /\ api_in.idx = PyTuple(<<Slice(None, None, IntIndex(0 - 2)), IntIndex(0 - 1)>>)
  /\ api_in.x.sh = <<3, 2>> /\ api_in.y.sh = <<2>> /\ api_in.op = "add"
  /\ api_out.out.k = "array" /\ api_out.out # api_in.x

\* the x axes that the integers and the non-unit-stride slices of a
\* canonicalised index stand at, counting from axis
RECURSIVE InsertedAxes(_, _, _)
InsertedAxes(idx, x_shape, axis) ==
  IF idx = <<>> THEN <<>>
  ELSE IF Head(idx) = None THEN InsertedAxes(Tail(idx), x_shape, axis)
  ELSE (IF \/ Head(idx).k = "int"
           \/ /\ Head(idx).k = "slice" /\ ~is_slice_none(Head(idx))
              /\ static_idx(Head(idx), x_shape[axis + 1]).stride # 1
        THEN <<axis>> ELSE <<>>) \o InsertedAxes(Tail(idx), x_shape, axis + 1)

\* the number of full slices and unit-stride slices of a canonicalised index
WindowSlices(idx, x_shape) ==
  Cardinality({j \in 1..Len(idx) : idx[j].k = "slice"})
    - Cardinality({j \in 1..Len(idx) :
                     idx[j].k = "slice" /\ (j - 1) \in SeqRange(InsertedAxes(idx, x_shape, 0))})

LoopEnded == Scattered /\ api_out.st # None /\ api_out.st.err = None

\* C29: at the end of the index loop of _scatter_update every axis of x has
\* been counted once: integers and non-unit-stride slices put their x axis in
\* inserted_window_dims, full and unit-stride slices put one entry each in
\* update_window_dims, None consumes no x axis, the two lists together have as
\* many entries as x has axes, and slice_shape and collapsed_slice_shape have
\* the same product.
C29_AxesCounted ==
  LoopEnded =>
    LET st == api_out.st
        canon == Canonical(api_in.x, api_in.idx).e
        nones == Cardinality({j \in 1..Len(canon) : canon[j] = None})
    IN  /\ st.x_axis = Len(api_in.x.sh)
        /\ Len(canon) = Len(api_in.x.sh) + nones
        /\ st.inserted_window_dims = InsertedAxes(canon, api_in.x.sh, 0)
        /\ Len(st.update_window_dims) = Len(api_in.x.sh) - Len(st.inserted_window_dims)
        /\ Len(st.update_window_dims) + Len(st.inserted_window_dims) = Len(api_in.x.sh)
        /\ Len(st.slice_shape) = Len(st.collapsed_slice_shape) + nones
        /\ Product(st.slice_shape) = Product(st.collapsed_slice_shape)

C29_Witness ==
  /\ LoopEnded
  /\ api_in.idx = PyTuple(<<None, Slice(None, None, IntIndex(2))>>)
  /\ api_in.x.sh = <<3, 2>>
  /\ api_out.st.inserted_window_dims = <<0>>
  /\ api_out.st.update_window_dims = <<1>>
  /\ api_out.st.slice_shape = <<1, 2, 2>>
  /\ api_out.st.collapsed_slice_shape = <<2, 2>>

(***************************************************************************)
(* The construction of partial values (SpecPartialVal): PartialVal.__new__ *)
(* and the producers pack_pvals and join_pvals.                            *)
(***************************************************************************)
\* core.valid_jaxtype(x): x has a concrete abstraction, i.e. it is an array
\* or a JaxTuple
valid_jaxtype(x) == x.k \in {"arr", "tup"}

\* isinstance(x, valid_pv_types)
IsValidPvType(x) == IsAbstractValue(x) \/ IsJaxprTracerTuple(x) \/ x = None

\* PartialVal.__new__(cls, xs) with xs = (xs0, xs1) and no tracer as xs1:
\* Python reads the assertion as
\*   skip_checks or ((isinstance(xs[0], valid_pv_types)
\*                    and isinstance(xs[1], Tracer)) or valid_jaxtype(xs[1]))
PartialVal_new(skip_checks, xs0, xs1) ==
  IF skip_checks \/ ((IsValidPvType(xs0) /\ FALSE) \/ valid_jaxtype(xs1))
  THEN PartialVal(xs0, xs1)
  ELSE AssertionError

\* first components tried: the valid kinds, and a raw array and a list
FirstComponents ==
  {None, ShapedArray(<<>>), ConcreteArray(0, <<>>), AbstractTuple(<<>>),
   JaxprTracerTuple(<<None>>), Arr(0, <<>>), PyList(<<>>)}

\* second components tried: jax values, and None and a list
SecondComponents ==
  {unit, Arr(0, <<>>), Arr(MaxVal, <<>>), JaxTuple(<<Arr(0, <<>>)>>), None, PyList(<<>>)}

PartialValInit ==
  /\ api_in \in {[op |-> "new", skip_checks |-> c, xs0 |-> a, xs1 |-> b] :
                   c \in BOOLEAN, a \in FirstComponents, b \in SecondComponents}
                \cup {[op |-> "pack", pvals |-> <<p>>] : p \in LeafPVals}
                \cup {[op |-> "pack", pvals |-> <<p, q>>] : p \in LeafPVals, q \in LeafPVals}
                \cup {[op |-> "join", pval1 |-> p, pval2 |-> q] : p \in PVals, q \in PVals}
  /\ api_out = NoResult
  /\ jit_cache = {} /\ body_runs = 0
  /\ EngineIdle /\ JoinIdle /\ MergeIdle

NewPartialVal ==
  /\ api_out = NoResult /\ api_in.op = "new"
  /\ api_out' = [k |-> "made", out |-> PartialVal_new(api_in.skip_checks, api_in.xs0, api_in.xs1)]
  /\ UNCHANGED <<joinVars, mergeVars, engineVars, api_in, jit_cache, body_runs>>

PackPVals ==
  /\ api_out = NoResult /\ api_in.op = "pack"
  /\ api_out' = [k |-> "made", out |-> pack_pvals(api_in.pvals)]
  /\ UNCHANGED <<joinVars, mergeVars, engineVars, api_in, jit_cache, body_runs>>

JoinPVals ==
  /\ api_out = NoResult /\ api_in.op = "join"
  /\ api_out' = [k |-> "made", out |-> join_pvals(api_in.pval1, api_in.pval2)]
  /\ UNCHANGED <<joinVars, mergeVars, engineVars, api_in, jit_cache, body_runs>>

PartialValNext == NewPartialVal \/ PackPVals \/ JoinPVals

SpecPartialVal == PartialValInit /\ [][PartialValNext]_vars

\* C23: every PartialVal that is made has exactly one informative side: its
\* first component is an AbstractValue, a JaxprTracerTuple or None (anything
\* else is rejected at construction); with an AbstractValue the second
\* component is unit; with None the second component is the known value.
C23_OneInformativeSide ==
  (api_out.k = "made" /\ ~IsErr(api_out.out)) =>
     /\ IsValidPvType(api_out.out.pv)
     /\ IsAbstractValue(api_out.out.pv) => api_out.out.const = unit
     /\ api_out.out.pv = None => valid_jaxtype(api_out.out.const)

(***************************************************************************)
(* process_primitive with the registry of custom partial-evaluation rules  *)
(* (SpecPrimitive).  The registry is the set of the primitives that have a *)
(* rule; the rule that is registered returns its first argument tracer.    *)
(***************************************************************************)
\* a custom partial-evaluation rule: partial_eval(trace, *tracers, **params)
first_arg_rule(h, trace, tracers) == Outcome(h, tracers[1])

\* faulty variant of process_primitive: the registry is not consulted
process_primitive_no_rules(rules, h, trace, primitive, tracers) ==
  process_primitive(h, trace, primitive, tracers)

\* JaxprTrace.process_primitive (lines 68-77)
process_primitive_rules(rules, h, trace, primitive, tracers) ==
  IF primitive \in rules THEN first_arg_rule(h, trace, tracers)
  ELSE process_primitive(h, trace, primitive, tracers)

PrimTrace == JaxprTrace(1, 0)

\* the arguments of a primitive: known constants and abstract inputs of the
\* trace
PrimArgs ==
  {[pval |-> PartialVal(None, Arr(v, <<>>)), val |-> Arr(v, <<>>)] : v \in 0..MaxVal}
    \cup {[pval |-> PartialVal(ShapedArray(sh), unit), val |-> Arr(0, sh)] : sh \in Shapes}

PrimTracer(a) ==
  JaxprTracer(PrimTrace, a.pval, IF a.pval.pv = None THEN unit ELSE LambdaBinding, a.val)

PrimitiveInit ==
  /\ api_in \in {[h |-> <<PrimTracer(a), PrimTracer(b)>>, primitive |-> p, rules |-> rs] :
                   a \in PrimArgs, b \in PrimArgs, p \in Arith, rs \in SUBSET Arith}
  /\ api_out = NoResult
  /\ jit_cache = {} /\ body_runs = 0
  /\ EngineIdle /\ JoinIdle /\ MergeIdle

PrimDone(r) == [k |-> "prim", heap |-> r.heap, out |-> r.out]

ProcessPrimitiveCustom ==
  /\ api_out = NoResult /\ api_in.primitive \in api_in.rules
  /\ api_out' = PrimDone(process_primitive_rules(api_in.rules, api_in.h, PrimTrace,
                                                 api_in.primitive,
                                                 <<TracerRef(1), TracerRef(2)>>))
  /\ UNCHANGED <<joinVars, mergeVars, engineVars, api_in, jit_cache, body_runs>>

ProcessPrimitiveDefault ==
  /\ api_out = NoResult /\ api_in.primitive \notin api_in.rules
  /\ api_out' = PrimDone(process_primitive_rules(api_in.rules, api_in.h, PrimTrace,
                                                 api_in.primitive,
                                                 <<TracerRef(1), TracerRef(2)>>))
  /\ UNCHANGED <<joinVars, mergeVars, engineVars, api_in, jit_cache, body_runs>>

PrimitiveNext == ProcessPrimitiveCustom \/ ProcessPrimitiveDefault

SpecPrimitive == PrimitiveInit /\ [][PrimitiveNext]_vars

\* the instantiated form of argument i in the heap after the call: the
\* argument itself when it is abstract, the ConstVar tracer made for it when
\* it is known
Instantiated(h0, h, i, t) ==
  IF h0[i].pval.pv = None
  THEN /\ t.id > Len(h0)
       /\ h[t.id].recipe = ConstVar(h0[i].pval.const)
       /\ h[t.id].pval = PartialVal(get_aval(h0[i].pval.const), unit)
  ELSE t = TracerRef(i)

\* C24: process_primitive hands the call to the custom partial-evaluation
\* rule registered for the primitive and does nothing else; with no rule it
\* instantiates every argument (a known one becomes a ConstVar tracer with an
\* abstract partial value, an abstract one is passed on unchanged) and
\* returns a new tracer whose partial value is the primitive's abstract_eval
\* result with unit and whose recipe is an equation over exactly the
\* instantiated arguments, in argument order.
C24_ProcessPrimitive ==
  api_out.k = "prim" =>
    LET h0 == api_in.h
        h == api_out.heap
        known == {i \in 1..Len(h0) : h0[i].pval.pv = None}
    IN  IF api_in.primitive \in api_in.rules
        THEN h = h0 /\ api_out.out = TracerRef(1)
        ELSE ~IsErr(api_out.out) =>
               /\ SubSeq(h, 1, Len(h0)) = h0
               /\ Len(h) = Len(h0) + Cardinality(known) + 1
               /\ api_out.out = TracerRef(Len(h))
               /\ h[Len(h)].recipe.k = "JaxprEqn"
               /\ h[Len(h)].recipe.primitive = api_in.primitive
               /\ Len(h[Len(h)].recipe.invars) = Len(h0)
               /\ \A i \in 1..Len(h0) : Instantiated(h0, h, i, h[Len(h)].recipe.invars[i])
               /\ h[Len(h)].pval =
                    PartialVal(abstract_eval(api_in.primitive,
                                             [i \in 1..Len(h0) |->
                                                aval_of(h, h[Len(h)].recipe.invars[i])]), unit)
               /\ IsAbstractValue(h[Len(h)].pval.pv)

C24_Witness ==
  /\ api_out.k = "prim" /\ api_in.primitive \notin api_in.rules /\ api_in.rules # {}
  /\ api_in.h[1].pval.pv = None /\ api_in.h[2].pval.pv # None
  /\ ~IsErr(api_out.out) /\ Len(api_out.heap) = 4
  /\ api_out.heap[4].recipe.invars = <<TracerRef(3), TracerRef(2)>>

(***************************************************************************)
(* Calls as single equations (Spec).                                       *)
(***************************************************************************)
\* process_call has just returned: the newest tracer holds a call equation
\* and the last walk was that of its callee, one sublevel up
CallReturned ==
  /\ heap # <<>>
  /\ last.k = "walk"
  /\ NewestTracer.recipe.k = "JaxprEqn"
  /\ NewestTracer.recipe.primitive = "call"
  /\ Len(last.heap) < Len(heap)
  /\ last.heap[last.out_tracer.id].trace =
       JaxprTrace(NewestTracer.trace.level, NewestTracer.trace.sublevel + 1)

\* the equations of program jaxpr that are calls
CallEqns(jaxpr) == {i \in 1..Len(jaxpr.eqns) : jaxpr.eqns[i].primitive = "call"}

\* the tracers a walk went through whose recipe is a call equation
CallTracers(walk) ==
  {t \in SeqRange(walk.sorted_tracers) :
     walk.heap[t].recipe.k = "JaxprEqn" /\ walk.heap[t].recipe.primitive = "call"}

\* C25: process_call adds exactly one equation for the call: its primitive
\* is the call primitive and it carries exactly one sub-program with the
\* bindings of that sub-program's constants and free variables; in the
\* program of the caller every call is one equation with one sub-program,
\* and no equation of a callee is in the caller's list of equations.
C25_CallOneEquation ==
  /\ CallReturned =>
       /\ \A i \in (Len(last.heap) + 1)..(Len(heap) - 1) : heap[i].recipe.k # "JaxprEqn"
       /\ Len(NewestTracer.recipe.bound_subjaxprs) = 1
       /\ NewestTracer.recipe.bound_subjaxprs[1].jaxpr = last.jaxpr
       /\ Len(NewestTracer.recipe.bound_subjaxprs[1].consts) = Len(last.jaxpr.constvars)
       /\ Len(NewestTracer.recipe.bound_subjaxprs[1].freevars) = Len(last.jaxpr.freevars)
  /\ last.k = "walk" =>
       /\ Cardinality(CallEqns(last.jaxpr)) = Cardinality(CallTracers(last))
       /\ \A i \in CallEqns(last.jaxpr) :
            /\ Len(last.jaxpr.eqns[i].bound_subjaxprs) = 1
            /\ Len(last.jaxpr.eqns[i].bound_subjaxprs[1].consts)
                 = Len(last.jaxpr.eqns[i].bound_subjaxprs[1].jaxpr.constvars)
            /\ Len(last.jaxpr.eqns[i].bound_subjaxprs[1].freevars)
                 = Len(last.jaxpr.eqns[i].bound_subjaxprs[1].jaxpr.freevars)
       /\ \A t \in SeqRange(last.sorted_tracers) :
            ~TraceLess(last.heap[last.out_tracer.id].trace, last.heap[t].trace)

\* the program of a caller holds one equation, the call of a callee whose
\* own program holds an equation
C25_Witness ==
  /\ last.k = "walk"
  /\ Len(last.jaxpr.eqns) = 1
  /\ last.jaxpr.eqns[1].primitive = "call"
  /\ Len(last.jaxpr.eqns[1].bound_subjaxprs) = 1
  /\ Len(last.jaxpr.eqns[1].bound_subjaxprs[1].jaxpr.eqns) >= 1

(***************************************************************************)
(* instantiate_const on every kind of partial value (SpecInstantiate).     *)
(***************************************************************************)
\* the partial values of the tracer: known and abstract leaves, tuples of
\* them and of tuples packed by pack_pvals, and two partial values whose
\* first component is of no valid kind
InstLeaves ==
  {[pval |-> PartialVal(None, Arr(v, <<>>)), val |-> Arr(v, <<>>)] : v \in 0..MaxVal}
    \cup {[pval |-> PartialVal(ShapedArray(sh), unit), val |-> Arr(0, sh)] : sh \in Shapes}
    \cup {[pval |-> PartialVal(ConcreteArray(v, <<>>), unit), val |-> Arr(v, <<>>)] :
            v \in 0..MaxVal}

InstPack(items) ==
  [pval |-> pack_pvals([i \in 1..Len(items) |-> items[i].pval]),
   val |-> JaxTuple([i \in 1..Len(items) |-> items[i].val])]

InstPairs == {InstPack(<<a, b>>) : a \in InstLeaves, b \in InstLeaves}

InstInvalid ==
  {[pval |-> PartialVal(PyList(<<>>), unit), val |-> unit],
   [pval |-> PartialVal(Arr(0, <<>>), Arr(0, <<>>)), val |-> Arr(0, <<>>)]}

InstArgs ==
  InstLeaves \cup InstPairs \cup InstInvalid
    \cup {InstPack(<<a, b>>) : a \in {c \in InstPairs : IsJaxprTracerTuple(c.pval.pv)},
                               b \in InstLeaves}

InstantiateInit ==
  /\ api_in \in {[h |-> new_arg(<<>>, PrimTrace, a.pval, a.val).heap] : a \in InstArgs}
  /\ api_out = NoResult
  /\ jit_cache = {} /\ body_runs = 0
  /\ EngineIdle /\ JoinIdle /\ MergeIdle

InstantiateConst ==
  /\ api_out = NoResult
  /\ api_out' = [k |-> "inst", r |-> instantiate_const(api_in.h, PrimTrace, TracerRef(1))]
  /\ UNCHANGED <<joinVars, mergeVars, engineVars, api_in, jit_cache, body_runs>>

InstantiateNext == InstantiateConst

SpecInstantiate == InstantiateInit /\ [][InstantiateNext]_vars

InstPv == api_in.h[1].pval.pv

\* the statement as claimed: a composite partial value yields a TypeError
\* and no tracer
C26_CompositeRefused ==
  (api_out.k = "inst" /\ IsJaxprTracerTuple(InstPv)) =>
     api_out.r.out = TypeError /\ api_out.r.heap = api_in.h

\* C26: instantiate_const raises TypeError, and makes no tracer, exactly
\* when the first component of the tracer's partial value is neither an
\* AbstractValue, a JaxprTracerTuple nor None; the elements of a composite
\* (JaxprTracerTuple) are instantiated one by one and packed into a new
\* tracer whose partial value is abstract.
C26_Instantiate ==
  api_out.k = "inst" =>
    /\ ~IsValidPvType(InstPv) => api_out.r.out = TypeError /\ api_out.r.heap = api_in.h
    /\ IsValidPvType(InstPv) => ~IsErr(api_out.r.out)
    /\ IsJaxprTracerTuple(InstPv) =>
         /\ IsTracer(api_out.r.out)
         /\ api_out.r.out.id > 1
         /\ IsAbstractValue(api_out.r.heap[api_out.r.out.id].pval.pv)
         /\ api_out.r.heap[api_out.r.out.id].recipe.k = "JaxprEqn"
         /\ api_out.r.heap[api_out.r.out.id].recipe.primitive = "pack"
         /\ aval_of(api_out.r.heap, api_out.r.out) = aval_of(api_in.h, TracerRef(1))

C26_Witness ==
  /\ api_out.k = "inst"
  /\ InstPv = JaxprTracerTuple(<<None, ShapedArray(<<>>)>>)
  /\ IsTracer(api_out.r.out)
  /\ api_out.r.heap[api_out.r.out.id].pval.pv.k = "atuple"

(***************************************************************************)
(* The names of the variables of a program (Spec).                         *)
(***************************************************************************)
Letters == <<"a", "b", "c", "d", "e", "f", "g", "h", "i", "j", "k", "l", "m",
             "n", "o", "p", "q", "r", "s", "t", "u", "v", "w", "x", "y", "z">>

\* Var.__repr__ with the suffix '' of tracers_to_jaxpr: the letters of the
\* name, the last one first computed
RECURSIVE Var_repr(_)
Var_repr(count) ==
  IF count \div 26 = 0 THEN <<Letters[(count % 26) + 1]>>
  ELSE Var_repr(count \div 26) \o <<Letters[(count % 26) + 1]>>

\* the same graph of tracers held by other objects: every identity is moved
\* up by one place, behind a tracer that nothing refers to
MovedRef(x) == IF IsTracer(x) THEN TracerRef(x.id + 1) ELSE x

MovedRefs(xs) == [i \in 1..Len(xs) |-> MovedRef(xs[i])]

MovedEqn(eqn) ==
  [eqn EXCEPT !.invars = MovedRefs(@),
              !.bound_subjaxprs =
                 [i \in 1..Len(@) |-> [@[i] EXCEPT !.consts = MovedRefs(@),
                                                   !.freevars = MovedRefs(@)]]]

MovedRecipe(r) ==
  IF r.k = "JaxprEqn" THEN MovedEqn(r)
  ELSE IF r.k = "Destructuring" THEN Destructuring(r.i, MovedEqn(r.eqn), r.key + 1)
  ELSE IF r.k = "ConstVar" THEN ConstVar(MovedRef(r.val))
  ELSE IF r.k = "FreeVar" THEN FreeVar(MovedRef(r.val))
  ELSE r

MovedHeap(h) ==
  <<JaxprTracer(JaxprTrace(0, 0), PartialVal(None, unit), unit, unit)>>
    \o [i \in 1..Len(h) |-> [h[i] EXCEPT !.recipe = MovedRecipe(@)]]

\* the variables of a program, unitvar apart
EqnVars(eqn) ==
  SeqRange(eqn.invars) \cup SeqRange(eqn.outvars)
    \cup UNION {SeqRange(eqn.bound_subjaxprs[i].consts)
                  \cup SeqRange(eqn.bound_subjaxprs[i].freevars) :
                i \in 1..Len(eqn.bound_subjaxprs)}

JaxprVars(jaxpr) ==
  (SeqRange(jaxpr.invars) \cup SeqRange(jaxpr.constvars) \cup SeqRange(jaxpr.freevars)
     \cup {jaxpr.outvar} \cup UNION {EqnVars(jaxpr.eqns[i]) : i \in 1..Len(jaxpr.eqns)})
    \ {unitvar}

\* distinct counter values print as distinct names
NamesDistinct ==
  \A c \in 0..MaxCount : \A d \in 0..MaxCount : c # d => Var_repr(c) # Var_repr(d)

Walked == last.k = "walk"

\* C27: tracers_to_jaxpr gives the same program, equations in the same
\* order and variables of the same names, for the same graph of tracers
\* whatever objects hold it; the names come from one counter that starts at
\* 0, the declared inputs are named first, in argument order, and distinct
\* counter values print as distinct names.
C27_Deterministic ==
  /\ NamesDistinct
  /\ Walked =>
       /\ tracers_to_jaxpr(MovedHeap(last.heap), MovedRefs(last.in_tracers),
                           MovedRef(last.out_tracer)).jaxpr = last.jaxpr
       /\ last.jaxpr.invars = [i \in 1..Len(last.in_tracers) |-> Var(i - 1)]
       /\ {v.count : v \in JaxprVars(last.jaxpr)}
            = 0..(Cardinality(JaxprVars(last.jaxpr)) - 1)

C27_Witness ==
  /\ Walked
  /\ Len(last.in_tracers) = 2
  /\ Len(last.jaxpr.eqns) >= 1
  /\ Cardinality(JaxprVars(last.jaxpr)) >= 3
  /\ Var_repr(last.jaxpr.invars[2].count) = <<"b">>

(***************************************************************************)
(* disable_jit blocks (SpecDisable).  _jit_is_disabled is a global flag;   *)
(* an open block is the suspended generator of disable_jit, which holds    *)
(* prev_val.  A with statement resumes the generator when its body ends    *)
(* and throws the exception into it, at the yield, when its body raises.   *)
(***************************************************************************)
\* static_argnums of the jit-wrapped function, which is called with one
\* argument
StaticArgnums == {{}, {1}}

\* jit(fun, static_argnums)(x), lines 98-122
f_jitted_argnums(fun, disabled, static_argnums, cache, x) ==
  IF disabled THEN [out |-> run_body(fun, x), cache |-> cache, ran |-> TRUE]
  ELSE IF static_argnums # {} /\ \E a \in static_argnums : a >= 1
  THEN [out |-> TypeError, cache |-> cache, ran |-> FALSE]
  ELSE f_jitted(fun, disabled, cache, x)

\* disable_jit up to its yield (lines 163-165)
disable_jit_enter(st) ==
  [st EXCEPT !.disabled = TRUE, !.blocks = Append(@, st.disabled)]

\* disable_jit resumed after its yield (line 166)
disable_jit_exit(st) ==
  [st EXCEPT !.disabled = Last(st.blocks), !.blocks = Front(@)]

\* an exception thrown into disable_jit at its yield: nothing catches it
\* there, the generator ends and line 166 is not run
disable_jit_throw(st) == [st EXCEPT !.blocks = Front(@)]

NoBlocks == [n |-> 0, inside |-> FALSE, call |-> NoResult, argnums |-> {},
             left |-> FALSE, before |-> FALSE, after |-> FALSE]

DisableInit ==
  /\ api_in \in {[f |-> f, disabled |-> FALSE, blocks |-> <<>>] : f \in JitFuns}
  /\ api_out = NoBlocks
  /\ jit_cache = {} /\ body_runs = 0
  /\ EngineIdle /\ JoinIdle /\ MergeIdle

\* with disable_jit(): is entered
EnterBlock ==
  /\ Len(api_in.blocks) < MaxDepth
  /\ api_in' = disable_jit_enter(api_in)
  /\ UNCHANGED <<joinVars, mergeVars, engineVars, api_out, jit_cache, body_runs>>

\* the body of the innermost block ends
LeaveBlock ==
  /\ api_in.blocks # <<>>
  /\ api_in' = disable_jit_exit(api_in)
  /\ api_out' = [api_out EXCEPT !.left = TRUE, !.before = Last(api_in.blocks),
                                !.after = disable_jit_exit(api_in).disabled]
  /\ UNCHANGED <<joinVars, mergeVars, engineVars, jit_cache, body_runs>>

\* the body of the innermost block raises; the exception is caught outside
\* the block, or goes on through the enclosing block in a later step
RaiseInBlock ==
  /\ api_in.blocks # <<>>
  /\ api_in' = disable_jit_throw(api_in)
  /\ api_out' = [api_out EXCEPT !.left = TRUE, !.before = Last(api_in.blocks),
                                !.after = disable_jit_throw(api_in).disabled]
  /\ UNCHANGED <<joinVars, mergeVars, engineVars, jit_cache, body_runs>>

\* the jit-wrapped function is called on x
CallJitted(x, static_argnums) ==
  /\ api_out.n < MaxCalls
  /\ LET done(r) ==
           /\ jit_cache' = r.cache
           /\ body_runs' = body_runs + (IF r.ran THEN 1 ELSE 0)
           /\ api_out' = [api_out EXCEPT !.n = @ + 1, !.inside = api_in.blocks # <<>>,
                                         !.call = [x |-> x, out |-> r.out, ran |-> r.ran],
                                         !.argnums = static_argnums]
     IN  done(f_jitted_argnums(api_in.f, api_in.disabled, static_argnums, jit_cache, x))
  /\ UNCHANGED <<joinVars, mergeVars, engineVars, api_in>>

DisableNext ==
  \/ EnterBlock
  \/ LeaveBlock
  \/ RaiseInBlock
  \/ \E x \in JitArgs, a \in StaticArgnums : CallJitted(x, a)

SpecDisable == DisableInit /\ [][DisableNext]_vars

\* a call made inside a disable_jit block called the original function
\* directly
CalledDirectly ==
  (api_out.n > 0 /\ api_out.inside) =>
     api_out.call.ran /\ api_out.call.out = run_body(api_in.f, api_out.call.x)

\* C28: inside a disable_jit block a jit-wrapped function calls the original
\* function directly, before the static_argnums check and any tracing; and
\* when a block has been left, by the end of its body or by an exception
\* raised in it, at any depth of nesting, the flag has the value it had
\* before the block was entered.
C28_FlagRestored ==
  /\ CalledDirectly
  /\ api_out.left => api_out.after = api_out.before

(***************************************************************************)
(* abstract_eval_fun (Spec): the abstract-evaluation rule that             *)
(* custom_transforms installs traces the function with trace_to_jaxpr on   *)
(* abstract inputs and returns the first component of the output partial   *)
(* value.                                                                  *)
(***************************************************************************)
\* abstract_eval_fun from the return of trace_to_jaxpr (lines 187-189):
\* _, pvout, _ = trace_to_jaxpr(...); aval_out, _ = pvout; return aval_out
abstract_eval_fun(traced) == traced.out_pval.pv

\* the inputs of a walk were all made from PartialVal((a, unit)), a an
\* AbstractValue (line 186)
AbstractInputs(walk) ==
  \A i \in 1..Len(walk.in_tracers) :
    /\ IsAbstractValue(walk.heap[walk.in_tracers[i].id].pval.pv)
    /\ walk.heap[walk.in_tracers[i].id].pval.const = unit

\* trace_to_jaxpr returns in this step from a function traced on abstract
\* inputs
TracedAbstract ==
  /\ result'.k = "trace_to_jaxpr" /\ result' # result
  /\ last'.k = "walk" /\ AbstractInputs(last')

\* C30: abstract_eval_fun returns an AbstractValue that describes the output
\* of fun for every traceable fun and abstract inputs, a fun whose output
\* does not depend on its inputs included.
C30_OutputAbstraction ==
  [][TracedAbstract =>
       /\ IsAbstractValue(abstract_eval_fun(result'))
       /\ abstract_eval_fun(result') = aval_of(last'.heap, last'.out_tracer)]_vars
=============================================================================
